---- MODULE Spec2Model ----
(***************************************************************************)
(* Tiered memory store of osirison/engram: the short-term tier             *)
(* (MemoryStmService over Redis), the long-term tier (MemoryLtmService     *)
(* over Prisma/PostgreSQL) and the coordinator (MemoryService).            *)
(*                                                                         *)
(* Strings that the code builds or takes apart (Redis keys, scan           *)
(* patterns) are sequences of one-character strings.  A JavaScript Date    *)
(* is <<"Date", t>>, the ISO string JSON.stringify makes of it is          *)
(* <<"ISO", t>>, null is <<"null">>.  An optional input is <<>> when it is *)
(* omitted and <<v>> when it is supplied.                                  *)
(***************************************************************************)
EXTENDS Integers, Sequences, FiniteSets, TLC

VARIABLES
    now,      \* the wall clock (Date.now(), and the Redis server's clock)
    ticks,    \* how many times the clock has advanced
    redis,    \* the cache: key -> [val, pexp]; pexp is the key's physical expiry
    ltm,      \* the "memories" table: id (primary key) -> row
    hasStm,   \* whether MemoryLtmService was constructed with an stmService
    proc,     \* per caller: the call in flight, its position, locals and result
    nops      \* how many calls have been started

vars == <<now, ticks, redis, ltm, hasStm, proc, nops>>

----------------------------------------------------------------------------
(* Bounds of the model *)

MaxTicks == 2
\* how many calls are started in one behaviour
MaxOps == 2
\* LtmConfig.maxMemoriesPerUser as configured through the constructor
MaxMemoriesPerUser == 2

(* Program constants *)
MinTtl == 60
MaxTtl == 604800
DefaultTtl == 86400

Procs == {1, 2}
TickSteps == {1, 58}

\* Two tenants whose ids both pass userIdSchema (z.string().cuid() accepts any
\* character but whitespace and '-'); the second extends the first by ":b".
UserA == <<"a">>
UserB == <<"a", ":", "b">>
UserIds == {UserA, UserB}
\* ids made by randomUUID() (short-term) and by Prisma's cuid() (long-term)
UuidIds == {<<"x">>, <<"y">>}
CuidIds == {<<"k">>, <<"l">>, <<"n">>}
MemIds == UuidIds \cup CuidIds

None == <<>>
Some(v) == <<v>>
IsSome(o) == o # <<>>
NullDate == <<"null">>
NullMeta == "null"

----------------------------------------------------------------------------
(* StmKeyBuilder *)

KeyPrefix == <<"m", ":", "s">>

buildMemoryKey(userId, memoryId) ==
    KeyPrefix \o <<":">> \o userId \o <<":">> \o memoryId

buildUserPattern(userId) ==
    KeyPrefix \o <<":">> \o userId \o <<":", "*">>

\* key.split(':'): the parts between the colons, empty parts included
RECURSIVE Split(_, _)
Split(s, part) ==
    IF s = <<>> THEN <<part>>
    ELSE IF Head(s) = ":" THEN <<part>> \o Split(Tail(s), <<>>)
    ELSE Split(Tail(s), Append(part, Head(s)))

\* null, as the extractors return it
NullPart == <<"null">>

\* parts[i] when it is a non-empty string, null otherwise
PartOrNull(parts, i) ==
    IF i >= 1 /\ i <= Len(parts) /\ parts[i] # <<>> THEN parts[i] ELSE NullPart

\* extractMemoryId: the last part of the key
extractMemoryId(key) == PartOrNull(Split(key, <<>>), Len(Split(key, <<>>)))

\* extractUserId: the part before the last
extractUserId(key) == PartOrNull(Split(key, <<>>), Len(Split(key, <<>>)) - 1)

\* Redis glob matching (SCAN ... MATCH): '*' matches any run of characters.
RECURSIVE GlobMatch(_, _)
GlobMatch(pat, s) ==
    IF pat = <<>> THEN s = <<>>
    ELSE IF Head(pat) = "*"
         THEN GlobMatch(Tail(pat), s) \/ (s # <<>> /\ GlobMatch(pat, Tail(s)))
         ELSE s # <<>> /\ Head(s) = Head(pat) /\ GlobMatch(Tail(pat), Tail(s))

----------------------------------------------------------------------------
(* Dates and JSON *)

Date(t) == <<"Date", t>>
\* Date.prototype.toJSON: a Date becomes its ISO string; strings and null stay
ToJSON(d) == IF d[1] = "Date" THEN <<"ISO", d[2]>> ELSE d
\* new Date(v).getTime() of a Date or of an ISO string
GetTime(d) == d[2]

\* JSON.stringify(memory): the text is modelled by the document it denotes
JsonStringify(m) ==
    <<"json", [m EXCEPT !.createdAt = ToJSON(@),
                        !.updatedAt = ToJSON(@),
                        !.expiresAt = ToJSON(@)]>>
Garbage == <<"garbage">>
JsonParses(v) == v[1] = "json"
JsonParse(v) == v[2]

----------------------------------------------------------------------------
(* RedisService *)

\* a key is visible until the server's clock reaches its expiry
LiveIn(r, key) == key \in DOMAIN r /\ now < r[key].pexp
Live(key) == LiveIn(redis, key)
RedisGet(key) == IF Live(key) THEN redis[key].val ELSE <<"null">>
\* variant: a plain SET of a key that exists, its expiry left as it was
RedisSetKeepingExpiry(r, key, value, ttl) ==
    [k \in DOMAIN r \cup {key} |->
        IF k = key
        THEN [val |-> value, pexp |-> IF key \in DOMAIN r THEN r[key].pexp ELSE now + ttl]
        ELSE r[k]]
\* SETEX key ttl value
RedisSet(r, key, value, ttl) ==
    [k \in DOMAIN r \cup {key} |->
        IF k = key THEN [val |-> value, pexp |-> now + ttl] ELSE r[k]]
RedisDelMany(r, keys) == [k \in DOMAIN r \ keys |-> r[k]]
RedisDel(r, key) == RedisDelMany(r, {key})
\* TTL key: -2 when the key is absent (every key here is written by SETEX)
RedisTtl(key) == IF Live(key) THEN redis[key].pexp - now ELSE 0 - 2

AllKeys == {buildMemoryKey(u, m) : u \in UserIds, m \in UuidIds}
RECURSIVE SetToSeq(_)
SetToSeq(S) ==
    IF S = {} THEN <<>>
    ELSE LET x == CHOOSE y \in S : TRUE IN <<x>> \o SetToSeq(S \ {x})
\* the order in which SCAN walks the key space
KeySlots == SetToSeq(AllKeys)
\* SCAN cursor MATCH pattern COUNT count: looks at `count` slots from the cursor
RedisScan(r, cursor, pattern, count) ==
    LET last == IF cursor + count >= Len(KeySlots) THEN Len(KeySlots) ELSE cursor + count
    IN  [cursor |-> IF last = Len(KeySlots) THEN 0 ELSE last,
         keys |-> {KeySlots[i] : i \in {j \in (cursor + 1)..last :
                        LiveIn(r, KeySlots[j]) /\ GlobMatch(pattern, KeySlots[j])}}]

----------------------------------------------------------------------------
(* Callers *)

Idle == [pc |-> "idle", op |-> "none", u |-> <<>>, id |-> <<>>, inp |-> <<>>,
         tmp |-> <<>>, ret |-> "none", res |-> <<>>, pre |-> <<>>]

InFlight(p) == proc[p].pc \notin {"idle", "done"}

\* a call starts when the caller has none in flight
Begin(p, opName, u, id, inp, pcNext, retLabel, tmp) ==
    /\ ~InFlight(p)
    /\ nops < MaxOps
    /\ nops' = nops + 1
    /\ proc' = [proc EXCEPT ![p] =
                   [pc |-> pcNext, op |-> opName, u |-> u, id |-> id, inp |-> inp,
                    tmp |-> tmp, ret |-> retLabel, res |-> <<>>,
                    pre |-> [redis |-> redis, ltm |-> ltm, now |-> now]]]

\* a call that fails or returns before its first await
BeginDone(p, opName, u, id, inp, status, val) ==
    /\ ~InFlight(p)
    /\ nops < MaxOps
    /\ nops' = nops + 1
    /\ proc' = [proc EXCEPT ![p] =
                   [pc |-> "done", op |-> opName, u |-> u, id |-> id, inp |-> inp,
                    tmp |-> <<>>, ret |-> "none",
                    res |-> [status |-> status, val |-> val],
                    pre |-> [redis |-> redis, ltm |-> ltm, now |-> now]]]

Finished(q, status, val) ==
    [q EXCEPT !.pc = "done", !.res = [status |-> status, val |-> val]]

Tick ==
    /\ ticks < MaxTicks
    /\ \E d \in TickSteps :
         /\ now' = now + d
         /\ redis' = [k \in {j \in DOMAIN redis : now + d < redis[j].pexp} |-> redis[k]]
    /\ ticks' = ticks + 1
    /\ UNCHANGED <<ltm, hasStm, proc, nops>>

----------------------------------------------------------------------------
(* Short-term tier: types and validation schemas *)

\* inputs of MemoryStmService.create: content, metadata?, tags?, ttl?
CreateStmInputs ==
    { [content |-> "c1", metadata |-> None, tags |-> None, ttl |-> None],
      [content |-> "c1", metadata |-> Some("md1"), tags |-> Some(<<"t1">>), ttl |-> Some(60)],
      [content |-> "c2", metadata |-> None, tags |-> Some(<<"t1">>), ttl |-> Some(MaxTtl)],
      [content |-> "c2", metadata |-> None, tags |-> None, ttl |-> Some(30)],
      [content |-> "c2", metadata |-> None, tags |-> None, ttl |-> Some(MaxTtl + 1)] }

\* inputs of MemoryStmService.update: every field optional
UpdateStmInputs ==
    { [content |-> Some("c2"), metadata |-> None, tags |-> None, ttl |-> None],
      [content |-> None, metadata |-> Some("md2"), tags |-> Some(<<"t2">>), ttl |-> None],
      [content |-> None, metadata |-> None, tags |-> None, ttl |-> Some(120)],
      [content |-> None, metadata |-> None, tags |-> None, ttl |-> Some(59)],
      [content |-> Some("c2"), metadata |-> None, tags |-> None, ttl |-> Some(MaxTtl + 1)] }

ExtendInputs == {1, 60, MaxTtl}

\* variant: a ttl schema without .min() and .max()
ttlSchemaNoRange(ttl) == TRUE

\* ttlSchema: z.number().int().min(60).max(604800).optional()
ttlSchema(ttl) == ttl = None \/ (ttl[1] >= 60 /\ ttl[1] <= 604800)

\* createStmMemorySchema.parse succeeds
createStmMemorySchema(inp) == ttlSchema(inp.ttl)

\* updateStmMemorySchema.parse succeeds
updateStmMemorySchema(inp) == ttlSchema(inp.ttl)

\* what updateStmMemorySchema.parse returns: tagsSchema ends in .default([]),
\* so omitted tags come back as the empty array
updateStmMemoryParsed(inp) ==
    [inp EXCEPT !.tags = IF inp.tags = None THEN Some(<<>>) ELSE inp.tags]

\* MemoryStmService.validateTtl does not throw
validateTtl(ttl) == ~(ttl < MinTtl \/ ttl > MaxTtl)

\* the expiry test of findById
isExpired(memory) ==
    memory.expiresAt # NullDate /\ now > GetTime(memory.expiresAt)

\* randomUUID(): an id no entry of either tier carries
UuidInUse == {m \in UuidIds : (\E u \in UserIds : buildMemoryKey(u, m) \in DOMAIN redis)
                                \/ m \in DOMAIN ltm}
randomUUID == CHOOSE m \in UuidIds : m \notin UuidInUse

\* the memory object MemoryStmService.create builds
newStmMemory(memoryId, userId, inp, ttl) ==
    [id |-> memoryId, userId |-> userId, content |-> inp.content,
     metadata |-> IF IsSome(inp.metadata) THEN inp.metadata[1] ELSE NullMeta,
     tags |-> IF IsSome(inp.tags) THEN inp.tags[1] ELSE <<>>,
     type |-> "short-term",
     createdAt |-> Date(now), updatedAt |-> Date(now),
     expiresAt |-> Date(now + ttl), ttl |-> ttl]

\* variant: an update that leaves the ttl field of the stored object alone
updatedStmMemoryStaleTtl(existing, v, newTtl) ==
    [existing EXCEPT
        !.content = IF IsSome(v.content) THEN v.content[1] ELSE existing.content,
        !.metadata = IF IsSome(v.metadata) THEN v.metadata[1] ELSE existing.metadata,
        !.tags = IF IsSome(v.tags) THEN v.tags[1] ELSE existing.tags,
        !.updatedAt = Date(now),
        !.expiresAt = Date(now + newTtl)]

\* variant: an update that leaves expiresAt of the stored object alone
updatedStmMemoryStaleExpiry(existing, v, newTtl) ==
    [existing EXCEPT
        !.content = IF IsSome(v.content) THEN v.content[1] ELSE existing.content,
        !.metadata = IF IsSome(v.metadata) THEN v.metadata[1] ELSE existing.metadata,
        !.tags = IF IsSome(v.tags) THEN v.tags[1] ELSE existing.tags,
        !.updatedAt = Date(now),
        !.ttl = newTtl]

\* the memory object MemoryStmService.update builds from the stored one
updatedStmMemory(existing, v, newTtl) ==
    [existing EXCEPT
        !.content = IF IsSome(v.content) THEN v.content[1] ELSE existing.content,
        !.metadata = IF IsSome(v.metadata) THEN v.metadata[1] ELSE existing.metadata,
        !.tags = IF IsSome(v.tags) THEN v.tags[1] ELSE existing.tags,
        !.updatedAt = Date(now),
        !.expiresAt = Date(now + newTtl),
        !.ttl = newTtl]

\* tags.some(tag => memory.tags.includes(tag))
hasMatchingTag(tags, memory) ==
    \E i \in 1..Len(tags) : \E j \in 1..Len(memory.tags) : tags[i] = memory.tags[j]

----------------------------------------------------------------------------
(* How a findById inside a call continues *)

\* mapStmToMemory
mapStmToMemory(m) ==
    [id |-> m.id, userId |-> m.userId, content |-> m.content,
     metadata |-> IF m.metadata = NullMeta THEN "undefined" ELSE m.metadata,
     tags |-> m.tags, type |-> "short-term",
     createdAt |-> m.createdAt, updatedAt |-> m.updatedAt, expiresAt |-> m.expiresAt]

\* mapLtmToMemory
mapLtmToMemory(m) ==
    [id |-> m.id, userId |-> m.userId, content |-> m.content,
     metadata |-> IF m.metadata = NullMeta THEN "undefined" ELSE m.metadata,
     tags |-> m.tags, type |-> "long-term",
     createdAt |-> m.createdAt, updatedAt |-> m.updatedAt, expiresAt |-> m.expiresAt]

\* the calls of the coordinator
SvcOps == {"svc.get", "svc.update", "svc.delete"}

\* the call fails in the short-term tier with err: promote's catch wraps it
\* in LtmPromotionError; the coordinator's catch blocks log whatever was thrown
\* and go on to the long-term tier; the store's own methods let it through
StmFailed(q, err) ==
    CASE q.op = "ltm.promote" -> Finished(q, "LtmPromotionError", err)
      [] q.op = "svc.get" -> [q EXCEPT !.pc = "svc_get_ltm", !.tmp = [stmError |-> err]]
      [] q.op = "svc.update" -> [q EXCEPT !.pc = "ltm_upd_get", !.tmp = [stmError |-> err]]
      [] q.op = "svc.delete" -> [q EXCEPT !.pc = "svc_del_ltm", !.tmp = [stmError |-> err]]
      [] OTHER -> Finished(q, err, <<>>)

\* the short-term method returned m: the coordinator maps it
StmReturned(q, m) ==
    Finished(q, "ok", IF q.op \in SvcOps THEN mapStmToMemory(m) ELSE m)

\* the input stmService.update is given: the caller's, extendTtl's {ttl, tags},
\* or updateMemory's {content, metadata, tags: updates.tags ?? [], ttl}
stmUpdateInput(q) ==
    CASE q.op = "stm.extendTtl" -> q.tmp.upd
      [] q.op = "svc.update" ->
            [q.inp EXCEPT !.tags = IF q.inp.tags = None THEN Some(<<>>) ELSE q.inp.tags]
      [] OTHER -> q.inp

\* findById returned memory m; q.ret names the caller's next statement
StmFound(q, m) ==
    CASE q.ret = "return" -> StmReturned(q, m)
      [] q.ret = "update" ->
            LET v == updateStmMemoryParsed(stmUpdateInput(q))
                newTtl == IF IsSome(v.ttl) THEN v.ttl[1] ELSE m.ttl
            IN  IF validateTtl(newTtl)
                THEN [q EXCEPT !.pc = "upd_set",
                               !.tmp = [mem |-> updatedStmMemory(m, v, newTtl), ttl |-> newTtl]]
                ELSE StmFailed(q, "StmTtlValidationError")
      [] q.ret = "extend" -> [q EXCEPT !.pc = "ext_ttl", !.tmp = [existing |-> m]]
      [] q.ret = "promote" -> [q EXCEPT !.pc = "pro_quota", !.tmp = [stm |-> m]]

----------------------------------------------------------------------------
(* MemoryStmService *)

\* create: validation, id and memory object, up to the await of redis.set
StmCreate(p) ==
    /\ \E u \in UserIds, inp \in CreateStmInputs :
         IF ~createStmMemorySchema(inp)
         THEN BeginDone(p, "stm.create", u, <<>>, inp, "ZodError", <<>>)
         ELSE LET ttl == IF IsSome(inp.ttl) THEN inp.ttl[1] ELSE DefaultTtl
              IN  IF ~validateTtl(ttl)
                  THEN BeginDone(p, "stm.create", u, <<>>, inp, "StmTtlValidationError", <<>>)
                  ELSE /\ UuidIds \ UuidInUse # {}
                       /\ Begin(p, "stm.create", u, randomUUID, inp, "crt_set", "none",
                                [mem |-> newStmMemory(randomUUID, u, inp, ttl), ttl |-> ttl])
    /\ UNCHANGED <<now, ticks, redis, ltm, hasStm>>

\* create: redis.set(key, JSON.stringify(memory), ttl) and the return
StmCreateSet(p) ==
    /\ proc[p].pc = "crt_set"
    /\ redis' = RedisSet(redis, buildMemoryKey(proc[p].u, proc[p].id),
                         JsonStringify(proc[p].tmp.mem), proc[p].tmp.ttl)
    /\ proc' = [proc EXCEPT ![p] = Finished(@, "ok", proc[p].tmp.mem)]
    /\ UNCHANGED <<now, ticks, ltm, hasStm, nops>>

\* findById called directly
StmFindById(p) ==
    /\ \E u \in UserIds, id \in UuidIds :
         Begin(p, "stm.findById", u, id, <<>>, "find_get", "return", <<>>)
    /\ UNCHANGED <<now, ticks, redis, ltm, hasStm>>

\* variant: a findById whose catch lets the parse error through
FindGetParseErrorEscapes(p) ==
    /\ proc[p].pc = "find_get"
    /\ LET v == RedisGet(buildMemoryKey(proc[p].u, proc[p].id))
       IN  proc' = [proc EXCEPT ![p] =
                IF v = <<"null">> THEN StmFailed(@, "StmMemoryNotFoundError")
                ELSE IF ~JsonParses(v) THEN StmFailed(@, "SyntaxError")
                ELSE IF isExpired(JsonParse(v)) THEN [@ EXCEPT !.pc = "find_del"]
                ELSE StmFound(@, JsonParse(v))]
    /\ UNCHANGED <<now, ticks, redis, ltm, hasStm, nops>>

\* findById: redis.get, JSON.parse and the expiry test
FindGet(p) ==
    /\ proc[p].pc = "find_get"
    /\ LET v == RedisGet(buildMemoryKey(proc[p].u, proc[p].id))
       IN  proc' = [proc EXCEPT ![p] =
                IF v = <<"null">> THEN StmFailed(@, "StmMemoryNotFoundError")
                ELSE IF ~JsonParses(v) THEN StmFailed(@, "StmMemoryNotFoundError")
                ELSE IF isExpired(JsonParse(v)) THEN [@ EXCEPT !.pc = "find_del"]
                ELSE StmFound(@, JsonParse(v))]
    /\ UNCHANGED <<now, ticks, redis, ltm, hasStm, nops>>

\* findById: redis.get rejects (RedisService.get logs and rethrows); the call
\* is outside findById's try block
FindGetFails(p) ==
    /\ proc[p].pc = "find_get"
    /\ proc' = [proc EXCEPT ![p] = StmFailed(@, "RedisError")]
    /\ UNCHANGED <<now, ticks, redis, ltm, hasStm, nops>>

\* findById: redis.del of the expired key, then StmMemoryExpiredError
FindDel(p) ==
    /\ proc[p].pc = "find_del"
    /\ redis' = RedisDel(redis, buildMemoryKey(proc[p].u, proc[p].id))
    /\ proc' = [proc EXCEPT ![p] = StmFailed(@, "StmMemoryExpiredError")]
    /\ UNCHANGED <<now, ticks, ltm, hasStm, nops>>

\* update: schema validation, then findById
StmUpdate(p) ==
    /\ \E u \in UserIds, id \in UuidIds, inp \in UpdateStmInputs :
         IF ~updateStmMemorySchema(inp)
         THEN BeginDone(p, "stm.update", u, id, inp, "ZodError", <<>>)
         ELSE Begin(p, "stm.update", u, id, inp, "find_get", "update", <<>>)
    /\ UNCHANGED <<now, ticks, redis, ltm, hasStm>>

\* update: redis.set(key, JSON.stringify(updatedMemory), newTtl) and the return
StmUpdateSet(p) ==
    /\ proc[p].pc = "upd_set"
    /\ redis' = RedisSet(redis, buildMemoryKey(proc[p].u, proc[p].id),
                         JsonStringify(proc[p].tmp.mem), proc[p].tmp.ttl)
    /\ proc' = [proc EXCEPT ![p] = StmReturned(@, proc[p].tmp.mem)]
    /\ UNCHANGED <<now, ticks, ltm, hasStm, nops>>

\* delete: redis.del; zero keys removed is StmMemoryNotFoundError
StmDelete(p) ==
    /\ \E u \in UserIds, id \in UuidIds :
         Begin(p, "stm.delete", u, id, <<>>, "del_key", "none", <<>>)
    /\ UNCHANGED <<now, ticks, redis, ltm, hasStm>>

\* variant: a delete that does not look at the number of keys removed
StmDeleteKeyIgnoresCount(p) ==
    /\ proc[p].pc = "del_key"
    /\ redis' = RedisDel(redis, buildMemoryKey(proc[p].u, proc[p].id))
    /\ proc' = [proc EXCEPT ![p] =
           Finished(@, "ok", IF proc[p].op = "svc.delete" THEN TRUE ELSE <<>>)]
    /\ UNCHANGED <<now, ticks, ltm, hasStm, nops>>

StmDeleteKey(p) ==
    /\ proc[p].pc = "del_key"
    /\ LET key == buildMemoryKey(proc[p].u, proc[p].id)
       IN  /\ redis' = RedisDel(redis, key)
           /\ proc' = [proc EXCEPT ![p] =
                  IF Live(key)
                  THEN Finished(@, "ok", IF proc[p].op = "svc.delete" THEN TRUE ELSE <<>>)
                  ELSE StmFailed(@, "StmMemoryNotFoundError")]
    /\ UNCHANGED <<now, ticks, ltm, hasStm, nops>>

\* extendTtl: findById first
StmExtendTtl(p) ==
    /\ \E u \in UserIds, id \in UuidIds, additionalSeconds \in ExtendInputs :
         Begin(p, "stm.extendTtl", u, id, additionalSeconds, "find_get", "extend", <<>>)
    /\ UNCHANGED <<now, ticks, redis, ltm, hasStm>>

\* variant: an extendTtl that adds to the stored ttl field, not to what is left
StmExtendFromStoredTtl(p) ==
    /\ proc[p].pc = "ext_ttl"
    /\ LET currentTtl == RedisTtl(buildMemoryKey(proc[p].u, proc[p].id))
           newTtl == proc[p].tmp.existing.ttl + proc[p].inp
       IN  proc' = [proc EXCEPT ![p] =
                IF currentTtl = 0 - 2 THEN StmFailed(@, "StmMemoryNotFoundError")
                ELSE IF ~validateTtl(newTtl) THEN StmFailed(@, "StmTtlValidationError")
                ELSE [@ EXCEPT !.pc = "find_get", !.ret = "update",
                               !.tmp = [upd |-> [content |-> None, metadata |-> None,
                                                 tags |-> Some(proc[p].tmp.existing.tags),
                                                 ttl |-> Some(newTtl)]]]]
    /\ UNCHANGED <<now, ticks, redis, ltm, hasStm, nops>>

\* extendTtl: getTtl, the new TTL and its validation, then update({ttl, tags})
StmExtendGetTtl(p) ==
    /\ proc[p].pc = "ext_ttl"
    /\ LET currentTtl == RedisTtl(buildMemoryKey(proc[p].u, proc[p].id))
           newTtl == currentTtl + proc[p].inp
       IN  proc' = [proc EXCEPT ![p] =
                IF currentTtl = 0 - 2 THEN StmFailed(@, "StmMemoryNotFoundError")
                ELSE IF ~validateTtl(newTtl) THEN StmFailed(@, "StmTtlValidationError")
                ELSE [@ EXCEPT !.pc = "find_get", !.ret = "update",
                               !.tmp = [upd |-> [content |-> None, metadata |-> None,
                                                 tags |-> Some(proc[p].tmp.existing.tags),
                                                 ttl |-> Some(newTtl)]]]]
    /\ UNCHANGED <<now, ticks, redis, ltm, hasStm, nops>>

\* options of list: limit?, cursor?, tags?
ListStmInputs ==
    { [limit |-> None, cursor |-> None, tags |-> None],
      [limit |-> Some(1), cursor |-> None, tags |-> None],
      [limit |-> Some(1), cursor |-> Some(2), tags |-> Some(<<"t1">>)] }

\* the keys of a scan batch in the order the scan met them
InScanOrder(keys) == SelectSeq(KeySlots, LAMBDA k : k \in keys)

\* list: the loop over the pipeline's replies; a key that is gone replies
\* null, a value that does not parse is skipped, the loop breaks at limit
RECURSIVE collectMemories(_, _, _, _)
collectMemories(keys, tags, limit, memories) ==
    IF keys = <<>> \/ Len(memories) >= limit THEN memories
    ELSE IF /\ Live(Head(keys))
            /\ JsonParses(redis[Head(keys)].val)
            /\ Len(tags) > 0 => hasMatchingTag(tags, JsonParse(redis[Head(keys)].val))
         THEN collectMemories(Tail(keys), tags, limit,
                              Append(memories, JsonParse(redis[Head(keys)].val)))
         ELSE collectMemories(Tail(keys), tags, limit, memories)

\* list: limit || 20, cursor || '0', tags || [], and one scan of limit * 2
StmList(p) ==
    /\ \E u \in UserIds, options \in ListStmInputs :
         Begin(p, "stm.list", u, <<>>, options, "lst_get", "none",
               [scanResult |->
                   RedisScan(redis, IF IsSome(options.cursor) THEN options.cursor[1] ELSE 0,
                             buildUserPattern(u),
                             (IF IsSome(options.limit) THEN options.limit[1] ELSE 20) * 2),
                pages |-> <<>>,
                first |-> options.cursor])
    /\ UNCHANGED <<now, ticks, redis, ltm, hasStm>>

\* list: the pipeline of gets and the loop over its replies
StmListGet(p) ==
    /\ proc[p].pc = "lst_get"
    /\ proc' = [proc EXCEPT ![p] =
           [@ EXCEPT !.pc = "lst_cnt",
                     !.tmp = [scanResult |-> proc[p].tmp.scanResult,
                              pages |-> proc[p].tmp.pages,
                              first |-> proc[p].tmp.first,
                              memories |->
                                 collectMemories(
                                     InScanOrder(proc[p].tmp.scanResult.keys),
                                     IF IsSome(proc[p].inp.tags) THEN proc[p].inp.tags[1] ELSE <<>>,
                                     IF IsSome(proc[p].inp.limit) THEN proc[p].inp.limit[1] ELSE 20,
                                     <<>>)]]]
    /\ UNCHANGED <<now, ticks, redis, ltm, hasStm, nops>>

\* the keys of one tenant pattern, batch by batch, that count() counts
RECURSIVE countFrom(_, _, _, _)
countFrom(r, cursor, pattern, tags) ==
    LET scanResult == RedisScan(r, cursor, pattern, 1000)
        counted == IF Len(tags) > 0
                   THEN {k \in scanResult.keys :
                            JsonParses(r[k].val) /\ hasMatchingTag(tags, JsonParse(r[k].val))}
                   ELSE scanResult.keys
    IN  Cardinality(counted)
          + (IF scanResult.cursor # 0 THEN countFrom(r, scanResult.cursor, pattern, tags) ELSE 0)

\* count: the scan loop
StmCount(p) ==
    /\ \E u \in UserIds, tags \in {<<>>, <<"t1">>} :
         BeginDone(p, "stm.count", u, <<>>, tags, "ok",
                   countFrom(redis, 0, buildUserPattern(u), tags))
    /\ UNCHANGED <<now, ticks, redis, ltm, hasStm>>

\* list: the total of count() and the page that is returned
StmListCount(p) ==
    /\ proc[p].pc = "lst_cnt"
    /\ proc' = [proc EXCEPT ![p] =
           Finished(@, "ok",
               [items |-> proc[p].tmp.memories,
                totalCount |->
                    countFrom(redis, 0, buildUserPattern(proc[p].u),
                              IF IsSome(proc[p].inp.tags) THEN proc[p].inp.tags[1] ELSE <<>>),
                hasNextPage |-> proc[p].tmp.scanResult.cursor # 0,
                hasPreviousPage |-> IsSome(proc[p].inp.cursor) /\ proc[p].inp.cursor[1] # 0,
                startCursor |-> IF IsSome(proc[p].inp.cursor) THEN proc[p].inp.cursor[1] ELSE 0,
                endCursor |-> proc[p].tmp.scanResult.cursor])]
    /\ UNCHANGED <<now, ticks, redis, ltm, hasStm, nops>>

\* a caller paging through list: the next call carries the endCursor of the
\* page just returned, with the same limit and tags; pages collects the
\* items of the pages returned so far
StmListNext(p) ==
    /\ proc[p].pc = "done" /\ proc[p].op = "stm.list" /\ proc[p].res.status = "ok"
    /\ proc[p].res.val.hasNextPage
    /\ proc' = [proc EXCEPT ![p] =
           [@ EXCEPT !.pc = "lst_get",
                     !.res = <<>>,
                     !.inp = [limit |-> proc[p].inp.limit,
                              cursor |-> Some(proc[p].res.val.endCursor),
                              tags |-> proc[p].inp.tags],
                     !.tmp = [scanResult |->
                                 RedisScan(redis, proc[p].res.val.endCursor,
                                           buildUserPattern(proc[p].u),
                                           (IF IsSome(proc[p].inp.limit)
                                            THEN proc[p].inp.limit[1] ELSE 20) * 2),
                              pages |-> proc[p].tmp.pages \o proc[p].res.val.items,
                              first |-> proc[p].tmp.first]]]
    /\ UNCHANGED <<now, ticks, redis, ltm, hasStm, nops>>

\* the keys clear() deletes, batch by batch
RECURSIVE clearFrom(_, _, _)
clearFrom(r, cursor, pattern) ==
    LET scanResult == RedisScan(r, cursor, pattern, 1000)
    IN  scanResult.keys
          \cup (IF scanResult.cursor # 0
                THEN clearFrom(RedisDelMany(r, scanResult.keys), scanResult.cursor, pattern)
                ELSE {})

\* clear: the scan-and-delete loop
StmClear(p) ==
    /\ \E u \in UserIds :
         LET deleted == clearFrom(redis, 0, buildUserPattern(u))
         IN  /\ BeginDone(p, "stm.clear", u, <<>>, <<>>, "ok", Cardinality(deleted))
             /\ redis' = RedisDelMany(redis, deleted)
    /\ UNCHANGED <<now, ticks, ltm, hasStm>>

----------------------------------------------------------------------------
(* Long-term tier: types *)

LongTerm == "long-term"

CreateLtmInputs ==
    { [content |-> "c1", metadata |-> None, tags |-> None],
      [content |-> "c2", metadata |-> Some("md1"), tags |-> Some(<<"t1">>)] }

UpdateLtmInputs ==
    { [content |-> Some("c2"), metadata |-> None, tags |-> None],
      [content |-> None, metadata |-> Some("md2"), tags |-> Some(<<"t2">>)] }

\* options of list: limit?, cursor?, tags?, sortBy?, sortOrder?
ListLtmInputs ==
    { [limit |-> None, cursor |-> None, tags |-> None, sortBy |-> None, sortOrder |-> None],
      [limit |-> Some(1), cursor |-> None, tags |-> None, sortBy |-> None, sortOrder |-> None],
      [limit |-> Some(1), cursor |-> Some(<<"k">>), tags |-> None, sortBy |-> None, sortOrder |-> None],
      [limit |-> Some(1), cursor |-> Some(<<"x">>), tags |-> None, sortBy |-> None, sortOrder |-> None],
      [limit |-> Some(1), cursor |-> Some(<<"l">>), tags |-> None, sortBy |-> None, sortOrder |-> None],
      [limit |-> Some(2), cursor |-> None, tags |-> Some(<<"t1">>), sortBy |-> Some("updatedAt"),
       sortOrder |-> Some("asc")],
      [limit |-> None, cursor |-> None, tags |-> None, sortBy |-> None, sortOrder |-> None,
       dateFrom |-> Some(Date(96)), dateTo |-> Some(Date(97)), search |-> Some("C2")] }

\* filters of count: tags?, dateFrom?, dateTo?, search?
CountLtmInputs ==
    { [tags |-> None],
      [tags |-> Some(<<"t1">>)],
      [tags |-> None, dateFrom |-> Some(Date(95)), dateTo |-> Some(Date(95))],
      [tags |-> None, search |-> Some("C2")],
      [tags |-> None, dateFrom |-> Some(Date(96)), dateTo |-> Some(Date(97)), search |-> Some("C2")] }

\* the rows of one tenant in this tier: where {userId, type: LONG_TERM}
LtmRowsOf(t, userId) ==
    {id \in DOMAIN t : t[id].userId = userId /\ t[id].type = LongTerm}

\* variant: a quota test with > in place of >=
checkQuotaStrict(userId) == ~(Cardinality(LtmRowsOf(ltm, userId)) > MaxMemoriesPerUser)

\* checkQuota does not throw
checkQuota(userId) == ~(Cardinality(LtmRowsOf(ltm, userId)) >= MaxMemoriesPerUser)

\* Prisma's @default(cuid()): an id no row carries
cuid == CHOOSE id \in CuidIds : id \notin DOMAIN ltm

\* mapToLtmMemory
mapToLtmMemory(memory) == [memory EXCEPT !.type = "long-term", !.expiresAt = NullDate]

\* variant: a create whose row carries an expiry
newLtmRowExpiring(id, userId, inp) ==
    [id |-> id, userId |-> userId, content |-> inp.content,
     metadata |-> IF IsSome(inp.metadata) THEN inp.metadata[1] ELSE NullMeta,
     tags |-> IF IsSome(inp.tags) THEN inp.tags[1] ELSE <<>>,
     type |-> LongTerm,
     createdAt |-> Date(now), updatedAt |-> Date(now), expiresAt |-> Date(now + DefaultTtl)]

\* the row memory.create inserts for create()
newLtmRow(id, userId, inp) ==
    [id |-> id, userId |-> userId, content |-> inp.content,
     metadata |-> IF IsSome(inp.metadata) THEN inp.metadata[1] ELSE NullMeta,
     tags |-> IF IsSome(inp.tags) THEN inp.tags[1] ELSE <<>>,
     type |-> LongTerm,
     createdAt |-> Date(now), updatedAt |-> Date(now), expiresAt |-> NullDate]

\* variant: a promotion that stamps createdAt anew
promotedRowRestamped(stmMemory) ==
    [id |-> stmMemory.id, userId |-> stmMemory.userId, content |-> stmMemory.content,
     metadata |-> stmMemory.metadata, tags |-> stmMemory.tags,
     type |-> LongTerm,
     createdAt |-> Date(now), updatedAt |-> Date(now), expiresAt |-> NullDate]

\* variant: a promotion that carries the entry's expiry into the row
promotedRowKeepingExpiry(stmMemory) ==
    [id |-> stmMemory.id, userId |-> stmMemory.userId, content |-> stmMemory.content,
     metadata |-> stmMemory.metadata, tags |-> stmMemory.tags,
     type |-> LongTerm,
     createdAt |-> Date(GetTime(stmMemory.createdAt)),
     updatedAt |-> Date(now), expiresAt |-> Date(GetTime(stmMemory.expiresAt))]

\* the row memory.create inserts for promote(): the DateTime column stores the
\* instant of the ISO string it is given
promotedRow(stmMemory) ==
    [id |-> stmMemory.id, userId |-> stmMemory.userId, content |-> stmMemory.content,
     metadata |-> stmMemory.metadata, tags |-> stmMemory.tags,
     type |-> LongTerm,
     createdAt |-> Date(GetTime(stmMemory.createdAt)),
     updatedAt |-> Date(now), expiresAt |-> NullDate]

\* variant: an insert whose transaction does not commit
LtmInsertDropped(t, row) == t

\* memory.create: the row under its primary key
LtmInsert(t, row) == [id \in DOMAIN t \cup {row.id} |-> IF id = row.id THEN row ELSE t[id]]
LtmDeleteMany(t, ids) == [id \in DOMAIN t \ ids |-> t[id]]

\* a property of an options object: undefined when the object has none
Opt(options, field) == IF field \in DOMAIN options THEN options[field] ELSE None

\* the where object list() builds from its validated options
listWhere(userId, options) ==
    [userId |-> userId, type |-> LongTerm,
     hasSome |-> IF IsSome(Opt(options, "tags")) /\ Len(Opt(options, "tags")[1]) > 0
                 THEN Opt(options, "tags") ELSE None,
     gte |-> Opt(options, "dateFrom"),
     lte |-> Opt(options, "dateTo"),
     contains |-> IF IsSome(Opt(options, "search")) /\ Opt(options, "search")[1] # ""
                  THEN Opt(options, "search") ELSE None]

\* variant: a count that leaves the search out of its where object
countWhereSansSearch(userId, filters) ==
    [userId |-> userId, type |-> LongTerm,
     hasSome |-> IF IsSome(Opt(filters, "tags")) /\ Len(Opt(filters, "tags")[1]) > 0
                 THEN Opt(filters, "tags") ELSE None,
     gte |-> Opt(filters, "dateFrom"),
     lte |-> Opt(filters, "dateTo"),
     contains |-> None]

\* the where object count() builds from its filters
countWhere(userId, filters) ==
    [userId |-> userId, type |-> LongTerm,
     hasSome |-> IF IsSome(Opt(filters, "tags")) /\ Len(Opt(filters, "tags")[1]) > 0
                 THEN Opt(filters, "tags") ELSE None,
     gte |-> Opt(filters, "dateFrom"),
     lte |-> Opt(filters, "dateTo"),
     contains |-> IF IsSome(Opt(filters, "search")) /\ Opt(filters, "search")[1] # ""
                  THEN Opt(filters, "search") ELSE None]

\* the characters of the contents and search strings in use
Spelling == [c1 |-> <<"c", "1">>, c2 |-> <<"c", "2">>, C2 |-> <<"C", "2">>]
\* lower case, character by character
ToLowerCase(chars) == [i \in 1..Len(chars) |-> IF chars[i] = "C" THEN "c" ELSE chars[i]]
\* contains with mode insensitive: the lowered needle occurs in the lowered text
containsInsensitive(text, needle) ==
    \E i \in 0..(Len(Spelling[text]) - Len(Spelling[needle])) :
        \A j \in 1..Len(Spelling[needle]) :
            ToLowerCase(Spelling[text])[i + j] = ToLowerCase(Spelling[needle])[j]

\* the rows a where object selects: userId and type equal, tags hasSome,
\* createdAt gte and lte, content contains
prismaMatches(row, where) ==
    /\ row.userId = where.userId
    /\ row.type = where.type
    /\ IsSome(where.hasSome) => hasMatchingTag(where.hasSome[1], row)
    /\ IsSome(where.gte) => GetTime(row.createdAt) >= GetTime(where.gte[1])
    /\ IsSome(where.lte) => GetTime(row.createdAt) <= GetTime(where.lte[1])
    /\ IsSome(where.contains) => containsInsensitive(row.content, where.contains[1])

\* the where clause of list
whereClause(row, userId, options) == prismaMatches(row, listWhere(userId, options))

\* the position of an id in the order that breaks ties of a sort
IdRank(id) == CHOOSE i \in 1..Len(SetToSeq(MemIds)) : SetToSeq(MemIds)[i] = id

\* orderBy {[sortBy]: sortOrder} over a set of ids of table t
RECURSIVE orderBy(_, _, _, _)
orderBy(t, ids, sortBy, sortOrder) ==
    IF ids = {} THEN <<>>
    ELSE LET key(id) == IF sortBy = "updatedAt" THEN GetTime(t[id].updatedAt)
                        ELSE GetTime(t[id].createdAt)
             before(a, b) ==
                 IF key(a) # key(b)
                 THEN IF sortOrder = "asc" THEN key(a) < key(b) ELSE key(a) > key(b)
                 ELSE IdRank(a) < IdRank(b)
             first == CHOOSE a \in ids : \A b \in ids \ {a} : before(a, b)
         IN  <<first>> \o orderBy(t, ids \ {first}, sortBy, sortOrder)

\* cursor {id} with skip 1: the position after the cursor row; no row when the
\* cursor is not among the ordered rows
afterCursor(ordered, cursor) ==
    IF cursor = None THEN 1
    ELSE IF \E i \in 1..Len(ordered) : ordered[i] = cursor[1]
         THEN (CHOOSE i \in 1..Len(ordered) : ordered[i] = cursor[1]) + 1
         ELSE Len(ordered) + 1

\* take: at most `take` rows of t from position `from` of the ordered ids
takeFrom(t, ordered, from, take) ==
    [i \in 1..((IF from + take - 1 > Len(ordered) THEN Len(ordered) ELSE from + take - 1)
                 - from + 1) |-> t[ordered[from + i - 1]]]

\* the ids where {userId, type, tags hasSome} selects
whereIds(t, userId, options) == {id \in DOMAIN t : whereClause(t[id], userId, options)}

\* findMany {where, orderBy, take, skip, cursor} over ids already ordered
findMany(t, ordered, options, take) ==
    takeFrom(t, ordered, afterCursor(ordered, options.cursor), take)

\* ltmQueryOptionsSchema.parse succeeds: the cursor must look like a cuid
ltmQueryOptionsSchema(options) ==
    options.cursor = None \/ options.cursor[1] \in CuidIds

\* the PaginatedResult built from the items kept
paginatedResult(items, totalCount, hasNextPage, cursor) ==
    [items |-> items, totalCount |-> totalCount, hasNextPage |-> hasNextPage,
     hasPreviousPage |-> IsSome(cursor),
     startCursor |-> IF Len(items) > 0 THEN Some(items[1].id) ELSE None,
     endCursor |-> IF Len(items) > 0 THEN Some(items[Len(items)].id) ELSE None]

\* variant: the extra row is never removed
slicePageUntrimmed(memories, limit) == memories

\* memories.slice(0, -1) when one row more than the limit came back
slicePage(memories, limit) ==
    IF Len(memories) > limit THEN SubSeq(memories, 1, Len(memories) - 1) ELSE memories

mapAllToLtmMemory(rows) == [i \in 1..Len(rows) |-> mapToLtmMemory(rows[i])]

\* hasNextPage = memories.length > limit; items = the rows kept, mapped
pageOf(memories, limit, totalCount, cursor) ==
    paginatedResult(mapAllToLtmMemory(slicePage(memories, limit)), totalCount,
                    Len(memories) > limit, cursor)

\* list() once the options are defaulted: count, then findMany with take limit + 1
listPage(t, userId, options, limit, sortBy, sortOrder) ==
    pageOf(findMany(t, orderBy(t, whereIds(t, userId, options), sortBy, sortOrder),
                    options, limit + 1),
           limit, Cardinality(whereIds(t, userId, options)), options.cursor)

\* the PaginatedResult list() returns
listResult(userId, options, defaultLimit) ==
    listPage(ltm, userId, options,
             IF IsSome(options.limit) THEN options.limit[1] ELSE defaultLimit,
             IF IsSome(options.sortBy) THEN options.sortBy[1] ELSE "createdAt",
             IF IsSome(options.sortOrder) THEN options.sortOrder[1] ELSE "desc")

----------------------------------------------------------------------------
(* MemoryLtmService *)

\* create: validation, up to the await inside checkQuota
LtmCreate(p) ==
    /\ \E u \in UserIds, inp \in CreateLtmInputs :
         Begin(p, "ltm.create", u, <<>>, inp, "ltm_quota", "none", <<>>)
    /\ UNCHANGED <<now, ticks, redis, ltm, hasStm>>

\* create: checkQuota's memory.count and its comparison
LtmCreateQuota(p) ==
    /\ proc[p].pc = "ltm_quota"
    /\ proc' = [proc EXCEPT ![p] =
           IF checkQuota(proc[p].u) THEN [@ EXCEPT !.pc = "ltm_insert"]
           ELSE Finished(@, "LtmMemoryQuotaExceededError", <<>>)]
    /\ UNCHANGED <<now, ticks, redis, ltm, hasStm, nops>>

\* create: memory.create and the return
LtmCreateInsert(p) ==
    /\ proc[p].pc = "ltm_insert"
    /\ CuidIds \ DOMAIN ltm # {}
    /\ LET row == newLtmRow(cuid, proc[p].u, proc[p].inp)
       IN  /\ ltm' = LtmInsert(ltm, row)
           /\ proc' = [proc EXCEPT ![p] = Finished(@, "ok", mapToLtmMemory(row))]
    /\ UNCHANGED <<now, ticks, redis, hasStm, nops>>

\* get: memory.findFirst {id, userId, type}
LtmGet(p) ==
    /\ \E u \in UserIds, id \in MemIds :
         BeginDone(p, "ltm.get", u, id, <<>>, "ok",
                   IF id \in LtmRowsOf(ltm, u) THEN Some(mapToLtmMemory(ltm[id])) ELSE None)
    /\ UNCHANGED <<now, ticks, redis, ltm, hasStm>>

\* delete: memory.deleteMany {id, userId, type}; returns count > 0
LtmDelete(p) ==
    /\ \E u \in UserIds, id \in MemIds :
         /\ BeginDone(p, "ltm.delete", u, id, <<>>, "ok", id \in LtmRowsOf(ltm, u))
         /\ ltm' = LtmDeleteMany(ltm, {id} \cap LtmRowsOf(ltm, u))
    /\ UNCHANGED <<now, ticks, redis, hasStm>>

\* what validateUpdateLtmMemory returns: memoryTagsSchema ends in
\* .default([]), so omitted tags come back as the empty array
updateLtmMemoryParsed(inp) ==
    [content |-> inp.content, metadata |-> inp.metadata,
     tags |-> IF inp.tags = None THEN Some(<<>>) ELSE inp.tags]

\* variant: an update whose updateData never carries the content
updatedLtmRowSansContent(row, v) ==
    [row EXCEPT
        !.metadata = IF IsSome(v.metadata) THEN v.metadata[1] ELSE row.metadata,
        !.tags = IF IsSome(v.tags) THEN v.tags[1] ELSE row.tags,
        !.updatedAt = Date(now)]

\* the row memory.update leaves: updateData holds the fields of the validated
\* input that are not undefined; updatedAt is @updatedAt
updatedLtmRow(row, v) ==
    [row EXCEPT
        !.content = IF IsSome(v.content) THEN v.content[1] ELSE row.content,
        !.metadata = IF IsSome(v.metadata) THEN v.metadata[1] ELSE row.metadata,
        !.tags = IF IsSome(v.tags) THEN v.tags[1] ELSE row.tags,
        !.updatedAt = Date(now)]

\* the long-term method returned row: the coordinator maps it
LtmReturned(q, row) ==
    Finished(q, "ok", IF q.op \in SvcOps THEN mapLtmToMemory(mapToLtmMemory(row))
                      ELSE mapToLtmMemory(row))

\* update: validation, up to the await of this.get
LtmUpdate(p) ==
    /\ \E u \in UserIds, id \in MemIds, inp \in UpdateLtmInputs :
         Begin(p, "ltm.update", u, id, inp, "ltm_upd_get", "none", <<>>)
    /\ UNCHANGED <<now, ticks, redis, ltm, hasStm>>

\* update: this.get; no row is LtmMemoryNotFoundError
LtmUpdateGet(p) ==
    /\ proc[p].pc = "ltm_upd_get"
    /\ proc' = [proc EXCEPT ![p] =
                  IF proc[p].id \in LtmRowsOf(ltm, proc[p].u)
                  THEN [@ EXCEPT !.pc = "ltm_upd_set"]
                  ELSE Finished(@, "LtmMemoryNotFoundError", <<>>)]
    /\ UNCHANGED <<now, ticks, redis, ltm, hasStm, nops>>

\* update: memory.update {where: id, userId, type}; a row that is gone by now
\* makes Prisma throw, which the catch wraps in LtmDatabaseError
LtmUpdateSet(p) ==
    /\ proc[p].pc = "ltm_upd_set"
    /\ IF proc[p].id \in LtmRowsOf(ltm, proc[p].u)
       THEN /\ ltm' = [ltm EXCEPT ![proc[p].id] =
                          updatedLtmRow(@, updateLtmMemoryParsed(proc[p].inp))]
            /\ proc' = [proc EXCEPT ![p] = LtmReturned(@, ltm'[proc[p].id])]
       ELSE /\ ltm' = ltm
            /\ proc' = [proc EXCEPT ![p] = Finished(@, "LtmDatabaseError", <<>>)]
    /\ UNCHANGED <<now, ticks, redis, hasStm, nops>>

\* count: memory.count {where}
LtmCount(p) ==
    /\ \E u \in UserIds, filters \in CountLtmInputs :
         BeginDone(p, "ltm.count", u, <<>>, filters, "ok",
                   Cardinality({id \in DOMAIN ltm :
                       prismaMatches(ltm[id], countWhere(u, filters))}))
    /\ UNCHANGED <<now, ticks, redis, ltm, hasStm>>

\* clear: memory.deleteMany {userId, type}; returns the count
LtmClear(p) ==
    /\ \E u \in UserIds :
         /\ BeginDone(p, "ltm.clear", u, <<>>, <<>>, "ok", Cardinality(LtmRowsOf(ltm, u)))
         /\ ltm' = LtmDeleteMany(ltm, LtmRowsOf(ltm, u))
    /\ UNCHANGED <<now, ticks, redis, hasStm>>

\* list: validation, where clause, count and findMany, pagination info
LtmList(p) ==
    /\ \E u \in UserIds, options \in ListLtmInputs :
         IF ~ltmQueryOptionsSchema(options)
         THEN BeginDone(p, "ltm.list", u, <<>>, options, "ZodError", <<>>)
         ELSE BeginDone(p, "ltm.list", u, <<>>, options, "ok", listResult(u, options, 20))
    /\ UNCHANGED <<now, ticks, redis, ltm, hasStm>>

\* promote: the stmService test, then stmService.findById
LtmPromote(p) ==
    /\ \E u \in UserIds, id \in UuidIds :
         IF ~hasStm
         THEN BeginDone(p, "ltm.promote", u, id, <<>>, "LtmPromotionError", <<>>)
         ELSE Begin(p, "ltm.promote", u, id, <<>>, "find_get", "promote", <<>>)
    /\ UNCHANGED <<now, ticks, redis, ltm, hasStm>>

\* promote: checkQuota inside the $transaction callback (on this.prisma)
PromoteQuota(p) ==
    /\ proc[p].pc = "pro_quota"
    /\ proc' = [proc EXCEPT ![p] =
           IF checkQuota(proc[p].u) THEN [@ EXCEPT !.pc = "pro_insert"]
           ELSE Finished(@, "LtmMemoryQuotaExceededError", <<>>)]
    /\ UNCHANGED <<now, ticks, redis, ltm, hasStm, nops>>

\* variant: a promote that writes its row over a row of the same id
PromoteInsertOverwrites(p) ==
    /\ proc[p].pc = "pro_insert"
    /\ ltm' = LtmInsert(ltm, promotedRow(proc[p].tmp.stm))
    /\ proc' = [proc EXCEPT ![p].pc = "pro_del",
                            ![p].tmp = [stm |-> proc[p].tmp.stm,
                                        result |-> promotedRow(proc[p].tmp.stm)]]
    /\ UNCHANGED <<now, ticks, redis, hasStm, nops>>

\* promote: prisma.memory.create with the short-term id and the commit; a row
\* with that primary key makes the insert fail, which the catch wraps
PromoteInsert(p) ==
    /\ proc[p].pc = "pro_insert"
    /\ LET row == promotedRow(proc[p].tmp.stm)
       IN  IF row.id \in DOMAIN ltm
           THEN /\ proc' = [proc EXCEPT ![p] =
                               Finished(@, "LtmPromotionError", "UniqueConstraint")]
                /\ ltm' = ltm
           ELSE /\ ltm' = LtmInsert(ltm, row)
                /\ proc' = [proc EXCEPT ![p].pc = "pro_del",
                                        ![p].tmp = [stm |-> proc[p].tmp.stm, result |-> row]]
    /\ UNCHANGED <<now, ticks, redis, hasStm, nops>>

\* variant: a promote whose short-term delete is not wrapped in its own
\* try/catch, so that its failure reaches the outer catch
PromoteStmDeleteRethrows(p) ==
    /\ proc[p].pc = "pro_del"
    /\ LET key == buildMemoryKey(proc[p].u, proc[p].id)
       IN  \/ /\ Live(key)
              /\ redis' = RedisDel(redis, key)
              /\ proc' = [proc EXCEPT ![p] =
                     [Finished(@, "ok", mapToLtmMemory(proc[p].tmp.result))
                         EXCEPT !.tmp = [stm |-> proc[p].tmp.stm,
                                         result |-> proc[p].tmp.result,
                                         stmDelete |-> "deleted"]]]
           \/ /\ redis' = redis
              /\ proc' = [proc EXCEPT ![p] = Finished(@, "LtmPromotionError", "RedisError")]
    /\ UNCHANGED <<now, ticks, ltm, hasStm, nops>>

\* promote: stmService.delete, whose failure is logged, and the return
PromoteStmDelete(p) ==
    /\ proc[p].pc = "pro_del"
    /\ LET key == buildMemoryKey(proc[p].u, proc[p].id)
           done(outcome) ==
               [Finished(proc[p], "ok", mapToLtmMemory(proc[p].tmp.result))
                   EXCEPT !.tmp = [stm |-> proc[p].tmp.stm, result |-> proc[p].tmp.result,
                                   stmDelete |-> outcome]]
       IN  \/ /\ redis' = RedisDel(redis, key)
              /\ proc' = [proc EXCEPT ![p] =
                     done(IF Live(key) THEN "deleted" ELSE "StmMemoryNotFoundError")]
           \/ /\ redis' = redis
              /\ proc' = [proc EXCEPT ![p] = done("RedisError")]
    /\ UNCHANGED <<now, ticks, ltm, hasStm, nops>>

----------------------------------------------------------------------------
(* MemoryService, the coordinator *)

ListMemoryInputs ==
    { [limit |-> None, cursor |-> None, tags |-> None, sortBy |-> None, sortOrder |-> None],
      [limit |-> Some(1), cursor |-> None, tags |-> None, sortBy |-> None, sortOrder |-> None] }

\* listMemories: ltmService.list with limit || 10, mapped item by item
mapAllLtmToMemory(items) == [i \in 1..Len(items) |-> mapLtmToMemory(items[i])]

withItemsMapped(ltmResult) == [ltmResult EXCEPT !.items = mapAllLtmToMemory(ltmResult.items)]

listMemories(userId, options) == withItemsMapped(listResult(userId, options, 10))

\* listMemories
SvcList(p) ==
    /\ \E u \in UserIds, options \in ListMemoryInputs :
         BeginDone(p, "svc.list", u, <<>>, options, "ok", listMemories(u, options))
    /\ UNCHANGED <<now, ticks, redis, ltm, hasStm>>

\* the ids the coordinator is asked about: one the short-term tier issued,
\* one the long-term tier issued
SvcIds == {<<"x">>, <<"k">>}

\* the null getMemory returns for an id in neither tier
NullMemory == [type |-> "null"]

\* getMemory: stmService.findById inside a try whose catch only logs
SvcGet(p) ==
    /\ \E u \in UserIds, id \in SvcIds :
         Begin(p, "svc.get", u, id, <<>>, "find_get", "return", [stmError |-> "none"])
    /\ UNCHANGED <<now, ticks, redis, ltm, hasStm>>

\* getMemory: ltmService.get; the mapped row, or null
SvcGetLtm(p) ==
    /\ proc[p].pc = "svc_get_ltm"
    /\ proc' = [proc EXCEPT ![p] =
                  IF proc[p].id \in LtmRowsOf(ltm, proc[p].u)
                  THEN LtmReturned(@, ltm[proc[p].id])
                  ELSE Finished(@, "ok", NullMemory)]
    /\ UNCHANGED <<now, ticks, redis, ltm, hasStm, nops>>

\* the patches updateMemory is given: content?, metadata?, tags?, ttl?
SvcUpdateInputs ==
    { [content |-> Some("c2"), metadata |-> None, tags |-> None, ttl |-> None],
      [content |-> None, metadata |-> Some("md2"), tags |-> Some(<<"t2">>), ttl |-> None],
      [content |-> None, metadata |-> None, tags |-> Some(<<"t2">>), ttl |-> Some(59)],
      [content |-> Some("c2"), metadata |-> None, tags |-> Some(<<"t1">>), ttl |-> Some(120)] }

\* updateMemory: stmService.update inside a try; its schema validation throws
\* inside that try, and the catch goes on to ltmService.update
SvcUpdate(p) ==
    /\ \E u \in UserIds, id \in SvcIds, inp \in SvcUpdateInputs :
         IF ~updateStmMemorySchema(inp)
         THEN Begin(p, "svc.update", u, id, inp, "ltm_upd_get", "none",
                    [stmError |-> "ZodError"])
         ELSE Begin(p, "svc.update", u, id, inp, "find_get", "update", <<>>)
    /\ UNCHANGED <<now, ticks, redis, ltm, hasStm>>

\* deleteMemory: stmService.delete inside a try that returns true
SvcDelete(p) ==
    /\ \E u \in UserIds, id \in SvcIds :
         Begin(p, "svc.delete", u, id, <<>>, "del_key", "none", <<>>)
    /\ UNCHANGED <<now, ticks, redis, ltm, hasStm>>

\* variant: a deleteMemory that answers true whatever deleteMany removed
SvcDeleteLtmAnswersTrue(p) ==
    /\ proc[p].pc = "svc_del_ltm"
    /\ ltm' = LtmDeleteMany(ltm, {proc[p].id} \cap LtmRowsOf(ltm, proc[p].u))
    /\ proc' = [proc EXCEPT ![p] = Finished(@, "ok", TRUE)]
    /\ UNCHANGED <<now, ticks, redis, hasStm, nops>>

\* deleteMemory: the catch returns ltmService.delete
SvcDeleteLtm(p) ==
    /\ proc[p].pc = "svc_del_ltm"
    /\ ltm' = LtmDeleteMany(ltm, {proc[p].id} \cap LtmRowsOf(ltm, proc[p].u))
    /\ proc' = [proc EXCEPT ![p] =
                  Finished(@, "ok", proc[p].id \in LtmRowsOf(ltm, proc[p].u))]
    /\ UNCHANGED <<now, ticks, redis, hasStm, nops>>

----------------------------------------------------------------------------
(* Initial states: stores as earlier calls can have left them *)

Epoch == 100

\* a short-term entry created by create() two clock units before the epoch,
\* whose SETEX reached Redis at the epoch
SeedStm(userId, memoryId, content, tags, ttl) ==
    [val |-> JsonStringify(
                [id |-> memoryId, userId |-> userId, content |-> content,
                 metadata |-> NullMeta, tags |-> tags, type |-> "short-term",
                 createdAt |-> Date(Epoch - 2), updatedAt |-> Date(Epoch - 2),
                 expiresAt |-> Date(Epoch - 2 + ttl), ttl |-> ttl]),
     pexp |-> Epoch + ttl]

SeedRedis ==
    [k \in {buildMemoryKey(UserA, <<"x">>), buildMemoryKey(UserB, <<"x">>)} |->
        IF k = buildMemoryKey(UserA, <<"x">>)
        THEN SeedStm(UserA, <<"x">>, "c1", <<"t1">>, MinTtl)
        ELSE SeedStm(UserB, <<"x">>, "c2", <<>>, MinTtl)]

SeedRow(id, userId, content, tags, createdAt) ==
    [id |-> id, userId |-> userId, content |-> content, metadata |-> NullMeta,
     tags |-> tags, type |-> LongTerm,
     createdAt |-> Date(createdAt), updatedAt |-> Date(createdAt), expiresAt |-> NullDate]

SeedLtm ==
    [id \in {<<"k">>, <<"l">>} |->
        IF id = <<"k">> THEN SeedRow(id, UserA, "c1", <<"t1">>, Epoch - 5)
        ELSE SeedRow(id, UserA, "c2", <<>>, Epoch - 3)]

Restrict(f, S) == [k \in S |-> f[k]]

KeyAx == buildMemoryKey(UserA, <<"x">>)
KeyBx == buildMemoryKey(UserB, <<"x">>)

\* the stores at the start: empty; the same entry id held by both tenants; a
\* tenant one row under its quota; at its quota; a long-term tier built
\* without the short-term service
Seeds ==
    { [redis |-> {}, ltm |-> {}, hasStm |-> TRUE],
      [redis |-> {KeyAx, KeyBx}, ltm |-> {}, hasStm |-> TRUE],
      [redis |-> {KeyAx}, ltm |-> {<<"k">>}, hasStm |-> TRUE],
      [redis |-> {KeyAx}, ltm |-> {<<"k">>, <<"l">>}, hasStm |-> TRUE],
      [redis |-> {KeyAx}, ltm |-> {<<"k">>}, hasStm |-> FALSE] }

Init ==
    /\ now = Epoch
    /\ ticks = 0
    /\ \E seed \in Seeds :
         /\ redis = Restrict(SeedRedis, seed.redis)
         /\ ltm = Restrict(SeedLtm, seed.ltm)
         /\ hasStm = seed.hasStm
    /\ proc = [p \in Procs |-> Idle]
    /\ nops = 0

\* the calls of the short-term store
CallStm(p) ==
    \/ StmCreate(p) \/ StmCreateSet(p)
    \/ StmFindById(p) \/ FindGet(p) \/ FindDel(p)
    \/ StmUpdate(p) \/ StmUpdateSet(p)
    \/ StmDelete(p) \/ StmDeleteKey(p)
    \/ StmExtendTtl(p) \/ StmExtendGetTtl(p)
    \/ StmCount(p) \/ StmClear(p)
    \/ StmList(p) \/ StmListGet(p) \/ StmListCount(p) \/ StmListNext(p)

\* the calls of the long-term store
CallLtm(p) ==
    \/ LtmCreate(p) \/ LtmCreateQuota(p) \/ LtmCreateInsert(p)
    \/ LtmGet(p) \/ LtmDelete(p) \/ LtmCount(p) \/ LtmClear(p) \/ LtmList(p)
    \/ LtmUpdate(p) \/ LtmUpdateGet(p) \/ LtmUpdateSet(p)
    \/ LtmPromote(p) \/ FindGet(p) \/ FindDel(p)
    \/ PromoteQuota(p) \/ PromoteInsert(p) \/ PromoteStmDelete(p)

\* the calls of the coordinator, and the creations that fill the two tiers
CallSvc(p) ==
    \/ StmCreate(p) \/ StmCreateSet(p)
    \/ LtmCreate(p) \/ LtmCreateQuota(p) \/ LtmCreateInsert(p)
    \/ LtmPromote(p) \/ PromoteQuota(p) \/ PromoteInsert(p) \/ PromoteStmDelete(p)
    \/ SvcList(p)
    \/ SvcGet(p) \/ FindGet(p) \/ FindGetFails(p) \/ FindDel(p) \/ SvcGetLtm(p)
    \/ SvcUpdate(p) \/ StmUpdateSet(p) \/ LtmUpdateGet(p) \/ LtmUpdateSet(p)
    \/ SvcDelete(p) \/ StmDeleteKey(p) \/ SvcDeleteLtm(p)

\* the calls whose awaits race on the quota
CallRace(p) ==
    \/ LtmCreate(p) \/ LtmCreateQuota(p) \/ LtmCreateInsert(p)
    \/ LtmPromote(p) \/ FindGet(p) \/ FindDel(p)
    \/ PromoteQuota(p) \/ PromoteInsert(p) \/ PromoteStmDelete(p)

\* short-term store, one call after another
NextStm == Tick \/ CallStm(1)
SpecStm == Init /\ [][NextStm]_vars

\* long-term store, one call after another
NextLtm == Tick \/ CallLtm(1)
SpecLtm == Init /\ [][NextLtm]_vars

\* coordinator, one call after another
NextSvc == Tick \/ CallSvc(1)
SpecSvc == Init /\ [][NextSvc]_vars

\* two callers whose calls interleave at every await
NextConc == Tick \/ \E p \in Procs : CallRace(p)
SpecConc == Init /\ [][NextConc]_vars

\* the calls that read and rewrite or remove one short-term key
CallKeyRace(p) ==
    \/ StmUpdate(p) \/ FindGet(p) \/ FindDel(p) \/ StmUpdateSet(p)
    \/ LtmPromote(p) \/ PromoteQuota(p) \/ PromoteInsert(p) \/ PromoteStmDelete(p)

\* two callers whose updates and promotions interleave at every await
NextKeyRace == Tick \/ \E p \in Procs : CallKeyRace(p)
SpecKeyRace == Init /\ [][NextKeyRace]_vars

\* findById and update, which read one short-term key and remove or rewrite it
CallCleanupRace(p) ==
    \/ StmFindById(p) \/ FindGet(p) \/ FindDel(p)
    \/ StmUpdate(p) \/ StmUpdateSet(p)

\* two callers whose reads and updates interleave at every await
NextCleanupRace == Tick \/ \E p \in Procs : CallCleanupRace(p)
SpecCleanupRace == Init /\ [][NextCleanupRace]_vars

\* a key is built for a tenant and an id
StmKeyBuild(p) ==
    /\ \E u \in UserIds, id \in MemIds :
         BeginDone(p, "key.build", u, id, <<>>, "ok", buildMemoryKey(u, id))
    /\ UNCHANGED <<now, ticks, redis, ltm, hasStm>>

\* the tenant and the id are read back from a key that was built
StmKeyExtract(p) ==
    /\ proc[p].pc = "done" /\ proc[p].op = "key.build"
    /\ proc' = [proc EXCEPT ![p] =
           [@ EXCEPT !.op = "key.extract",
                     !.tmp = [key |-> proc[p].res.val],
                     !.res = [status |-> "ok",
                              val |-> [userId |-> extractUserId(proc[p].res.val),
                                       memoryId |-> extractMemoryId(proc[p].res.val)]]]]
    /\ UNCHANGED <<now, ticks, redis, ltm, hasStm, nops>>

\* a key that was built is matched against the pattern of a tenant, as a
\* scan with MATCH buildUserPattern(tenant) does
StmKeyMatch(p) ==
    /\ proc[p].pc = "done" /\ proc[p].op = "key.build"
    /\ \E t \in UserIds :
         proc' = [proc EXCEPT ![p] =
            [@ EXCEPT !.op = "key.match",
                      !.inp = t,
                      !.tmp = [key |-> proc[p].res.val],
                      !.res = [status |-> "ok",
                               val |-> GlobMatch(buildUserPattern(t), proc[p].res.val)]]]
    /\ UNCHANGED <<now, ticks, redis, ltm, hasStm, nops>>

\* the key builder, used by two callers
NextKeys == \E p \in Procs : StmKeyBuild(p) \/ StmKeyExtract(p) \/ StmKeyMatch(p)
SpecKeys == Init /\ [][NextKeys]_vars

\* the delete calls of the two stores
CallDelete(p) == StmDelete(p) \/ StmDeleteKey(p) \/ LtmDelete(p)

\* deletes of both stores, one call after another
NextDelete == Tick \/ CallDelete(1)
SpecDelete == Init /\ [][NextDelete]_vars

\* a cache in which the payload under one key is not valid JSON
InitCorrupt ==
    /\ now = Epoch
    /\ ticks = 0
    /\ redis = [k \in {KeyAx, KeyBx} |->
                   IF k = KeyAx THEN [val |-> Garbage, pexp |-> Epoch + MinTtl]
                   ELSE SeedRedis[k]]
    /\ ltm = Restrict(SeedLtm, {})
    /\ hasStm = TRUE
    /\ proc = [p \in Procs |-> Idle]
    /\ nops = 0

\* the calls of the short-term store that read one entry
CallCorrupt(p) ==
    \/ StmFindById(p) \/ FindGet(p) \/ FindDel(p)
    \/ StmUpdate(p) \/ StmUpdateSet(p)
    \/ StmExtendTtl(p) \/ StmExtendGetTtl(p)

\* short-term store over a cache with a corrupt payload, one call after another
NextCorrupt == Tick \/ CallCorrupt(1)
SpecCorrupt == InitCorrupt /\ [][NextCorrupt]_vars

----------------------------------------------------------------------------
(* What the properties below read off a state *)

\* caller p's call of opName has returned or thrown
Done(p, opName) == proc[p].pc = "done" /\ proc[p].op = opName

\* the key of the entry caller p's call names
SrcKey(p) == buildMemoryKey(proc[p].u, proc[p].id)

\* when p's call started, the cache held a parsable entry under that key
HeldBefore(p) ==
    /\ SrcKey(p) \in DOMAIN proc[p].pre.redis
    /\ proc[p].pre.now < proc[p].pre.redis[SrcKey(p)].pexp
    /\ JsonParses(proc[p].pre.redis[SrcKey(p)].val)

\* that entry, as findById parses it
EntryBefore(p) == JsonParse(proc[p].pre.redis[SrcKey(p)].val)

\* its expiresAt is still ahead of the clock: it has been unexpired, and its
\* key present, for the whole of p's call
StillUnexpired(p) == HeldBefore(p) /\ now < GetTime(EntryBefore(p).expiresAt)

\* the cache as it was when p's call started, less the keys Redis itself has
\* expired since
StillKept(p) ==
    [k \in {j \in DOMAIN proc[p].pre.redis : now < proc[p].pre.redis[j].pexp} |->
        proc[p].pre.redis[k]]

\* how many long-term rows the tenant of p's call had when the call started
CountBefore(p) == Cardinality(LtmRowsOf(proc[p].pre.ltm, proc[p].u))

----------------------------------------------------------------------------
(* Long-term quota under concurrency *)

\* C1: with two callers whose create and promote calls interleave, no tenant
\* ever holds more than maxMemoriesPerUser long-term rows.
C1_QuotaNeverExceeded ==
    \A u \in UserIds : Cardinality(LtmRowsOf(ltm, u)) <= MaxMemoriesPerUser

----------------------------------------------------------------------------
(* promote *)

\* a promote call has ended whose source entry was held and unexpired
\* throughout, for a tenant under quota, on a service that has its stmService
PromotableSource(p) ==
    /\ Done(p, "ltm.promote")
    /\ hasStm
    /\ StillUnexpired(p)
    /\ CountBefore(p) < MaxMemoriesPerUser

\* the call returned the entry with the source's id, tenant, content, metadata,
\* tags and createdAt and no expiresAt; and when the short-term delete went
\* through, the key is gone from the cache (findById: NotFound) and get() finds
\* the row returned
PromotedFaithfully(p) ==
    /\ proc[p].res.status = "ok"
    /\ proc[p].res.val.id = EntryBefore(p).id
    /\ proc[p].res.val.userId = EntryBefore(p).userId
    /\ proc[p].res.val.content = EntryBefore(p).content
    /\ proc[p].res.val.metadata = EntryBefore(p).metadata
    /\ proc[p].res.val.tags = EntryBefore(p).tags
    /\ GetTime(proc[p].res.val.createdAt) = GetTime(EntryBefore(p).createdAt)
    /\ proc[p].res.val.expiresAt = NullDate
    /\ proc[p].tmp.stmDelete = "deleted" =>
          /\ RedisGet(SrcKey(p)) = <<"null">>
          /\ proc[p].id \in LtmRowsOf(ltm, proc[p].u)
          /\ mapToLtmMemory(ltm[proc[p].id]) = proc[p].res.val

\* C2 (as amended): promoting an unexpired short-term entry E of a tenant under
\* quota, when no long-term row carries E's id yet, returns a long-term entry
\* with E's id, tenant, content, metadata, tags and createdAt and expiresAt
\* null; when the short-term delete succeeds the entry is then gone from the
\* short-term tier and get() returns it from the long-term tier.
C2_PromoteFidelity ==
    \A p \in Procs :
        (PromotableSource(p) /\ proc[p].id \notin DOMAIN proc[p].pre.ltm)
            => PromotedFaithfully(p)

\* C2 as stated: the same for every unexpired entry of a tenant under quota,
\* whatever the long-term table holds.
C2_PromoteFidelityAsStated ==
    \A p \in Procs : PromotableSource(p) => PromotedFaithfully(p)

\* a promotion that returned an entry created before the call and removed the
\* short-term copy
C2_Promoted ==
    \E p \in Procs :
        /\ PromotableSource(p)
        /\ proc[p].id \notin DOMAIN proc[p].pre.ltm
        /\ proc[p].res.status = "ok"
        /\ proc[p].tmp.stmDelete = "deleted"
        /\ GetTime(proc[p].res.val.createdAt) < proc[p].pre.now
        /\ SrcKey(p) \notin DOMAIN redis

\* C3: at every point of a promote call (each is a point where the call can
\* fail or the process stop), an entry that was held and is still unexpired is
\* in the cache or in the long-term table: the short-term key is removed only
\* once the row is committed.
C3_PresentInSomeTier ==
    \A p \in Procs :
        (proc[p].op = "ltm.promote" /\ StillUnexpired(p))
            => (Live(SrcKey(p)) \/ proc[p].id \in LtmRowsOf(ltm, proc[p].u))

\* a promote call has removed the short-term key of an unexpired entry, whose
\* row is committed
C3_MovedAcross ==
    \E p \in Procs :
        /\ Done(p, "ltm.promote")
        /\ StillUnexpired(p)
        /\ proc[p].id \notin DOMAIN proc[p].pre.ltm
        /\ ~Live(SrcKey(p))
        /\ proc[p].id \in LtmRowsOf(ltm, proc[p].u)

\* C4: promote of a held, unexpired entry for a tenant whose long-term count is
\* at or above maxMemoriesPerUser fails with the quota error, leaves the
\* long-term table as it was and the short-term key with its value and expiry.
C4_QuotaLeavesBothTiers ==
    \A p \in Procs :
        (/\ Done(p, "ltm.promote")
         /\ hasStm
         /\ StillUnexpired(p)
         /\ CountBefore(p) >= MaxMemoriesPerUser)
            => /\ proc[p].res.status = "LtmMemoryQuotaExceededError"
               /\ ltm = proc[p].pre.ltm
               /\ SrcKey(p) \in DOMAIN redis
               /\ redis[SrcKey(p)] = proc[p].pre.redis[SrcKey(p)]

\* a promote call refused for quota
C4_RefusedAtQuota ==
    \E p \in Procs :
        /\ Done(p, "ltm.promote")
        /\ StillUnexpired(p)
        /\ CountBefore(p) >= MaxMemoriesPerUser
        /\ proc[p].res.status = "LtmMemoryQuotaExceededError"

\* C5: once promote's insert has committed (the row is in the table and was
\* not when the call started), the call returns that row as a long-term entry,
\* whatever the short-term delete does, and the row stays.
C5_DeleteFailureStillReturns ==
    \A p \in Procs :
        (/\ Done(p, "ltm.promote")
         /\ proc[p].id \notin DOMAIN proc[p].pre.ltm
         /\ proc[p].id \in DOMAIN ltm)
            => /\ proc[p].res.status = "ok"
               /\ ltm[proc[p].id].userId = proc[p].u
               /\ proc[p].res.val = mapToLtmMemory(ltm[proc[p].id])

\* a promote call returned although its short-term delete failed; both copies
\* exist
C5_ReturnedDespiteFailure ==
    \E p \in Procs :
        /\ Done(p, "ltm.promote")
        /\ proc[p].res.status = "ok"
        /\ proc[p].tmp.stmDelete = "RedisError"
        /\ Live(SrcKey(p))
        /\ proc[p].id \in LtmRowsOf(ltm, proc[p].u)

\* C6: promote fails with LtmPromotionError, leaves the long-term table as it
\* was and removes nothing from the cache, whenever the service has no
\* stmService or, when the call starts, the source entry is absent or the clock
\* has reached its expiresAt.
C6_PromotionErrorTouchesNothing ==
    \A p \in Procs :
        (/\ Done(p, "ltm.promote")
         /\ \/ ~hasStm
            \/ ~HeldBefore(p)
            \/ proc[p].pre.now >= GetTime(EntryBefore(p).expiresAt))
            => /\ proc[p].res.status = "LtmPromotionError"
               /\ ltm = proc[p].pre.ltm
               /\ redis = StillKept(p)

----------------------------------------------------------------------------
(* Short-term expiry and TTL validation *)

\* C7: a findById that starts when the clock has reached the entry's expiresAt
\* (now >= expiresAt) and ends while the key is still physically within its
\* Redis expiry fails with StmMemoryExpiredError and has removed the key, so
\* that the next findById finds nothing; the entry is not returned.
C7_ExpiredOnceReached ==
    \A p \in Procs :
        (/\ Done(p, "stm.findById")
         /\ HeldBefore(p)
         /\ proc[p].pre.now >= GetTime(EntryBefore(p).expiresAt)
         /\ now < proc[p].pre.redis[SrcKey(p)].pexp)
            => /\ proc[p].res.status = "StmMemoryExpiredError"
               /\ SrcKey(p) \notin DOMAIN redis

\* a TTL outside [minTtl, maxTtl]
OutOfRange(ttl) == ttl < MinTtl \/ ttl > MaxTtl

\* a create or update call that was given an out-of-range ttl has ended
SuppliedTtlOutOfRange(p) ==
    /\ Done(p, "stm.create") \/ Done(p, "stm.update")
    /\ IsSome(proc[p].inp.ttl)
    /\ OutOfRange(proc[p].inp.ttl[1])

\* an extendTtl call on a held, unexpired entry has ended whose remaining TTL
\* plus the extension was out of range whenever the call read it: below the
\* minimum already at the start, or above the maximum still at the end
ComputedTtlOutOfRange(p) ==
    /\ Done(p, "stm.extendTtl")
    /\ StillUnexpired(p)
    /\ \/ proc[p].pre.redis[SrcKey(p)].pexp - proc[p].pre.now + proc[p].inp < MinTtl
       \/ proc[p].pre.redis[SrcKey(p)].pexp - now + proc[p].inp > MaxTtl

\* C8 (as amended): create and update given a ttl outside [60, 604800] fail in
\* schema validation with ZodError; extendTtl whose computed TTL is outside the
\* range fails with StmTtlValidationError; either way the cache holds the keys,
\* values and expiries it held before the call.
C8_TtlRejected ==
    \A p \in Procs :
        /\ SuppliedTtlOutOfRange(p) =>
              (proc[p].res.status = "ZodError" /\ redis = StillKept(p))
        /\ ComputedTtlOutOfRange(p) =>
              (proc[p].res.status = "StmTtlValidationError" /\ redis = StillKept(p))

\* C8 as stated: all three fail with StmTtlValidationError.
C8_TtlRejectedAsStated ==
    \A p \in Procs :
        (SuppliedTtlOutOfRange(p) \/ ComputedTtlOutOfRange(p))
            => (proc[p].res.status = "StmTtlValidationError" /\ redis = StillKept(p))

\* an update with a ttl under the minimum, on an entry the cache holds, was
\* rejected
C8_UpdateRejected ==
    \E p \in Procs :
        /\ Done(p, "stm.update")
        /\ SuppliedTtlOutOfRange(p)
        /\ proc[p].inp.ttl[1] < MinTtl
        /\ StillUnexpired(p)
        /\ proc[p].res.status = "ZodError"

----------------------------------------------------------------------------
(* Tenant isolation *)

\* the tenant an entry of the cache belongs to
OwnerOf(entry) == JsonParse(entry.val).userId

\* C9: a call made for one tenant leaves every cache entry and long-term row
\* of another tenant as it was, counts none of them and returns none of them.
C9_TenantIsolation ==
    \A p \in Procs :
        proc[p].pc = "done" =>
            /\ \A k \in DOMAIN StillKept(p) :
                  OwnerOf(proc[p].pre.redis[k]) # proc[p].u
                      => (k \in DOMAIN redis /\ redis[k] = proc[p].pre.redis[k])
            /\ \A id \in DOMAIN proc[p].pre.ltm :
                  proc[p].pre.ltm[id].userId # proc[p].u
                      => (id \in DOMAIN ltm /\ ltm[id] = proc[p].pre.ltm[id])
            /\ (proc[p].op \in {"stm.count", "stm.clear"} /\ proc[p].res.status = "ok") =>
                  proc[p].res.val <=
                      Cardinality({k \in DOMAIN proc[p].pre.redis :
                          /\ proc[p].pre.now < proc[p].pre.redis[k].pexp
                          /\ OwnerOf(proc[p].pre.redis[k]) = proc[p].u})
            /\ (proc[p].op \in {"stm.findById", "stm.update", "stm.extendTtl"}
                  /\ proc[p].res.status = "ok") =>
                  proc[p].res.val.userId = proc[p].u

----------------------------------------------------------------------------
(* Coordinator *)

\* the entries of both tiers the tenant of p's call held when it started:
\* <<tier, id, createdAt>>
EntriesBefore(p) ==
    {<<"short-term", JsonParse(proc[p].pre.redis[k].val).id,
       GetTime(JsonParse(proc[p].pre.redis[k].val).createdAt)>> :
        k \in {j \in DOMAIN proc[p].pre.redis :
                 /\ proc[p].pre.now < proc[p].pre.redis[j].pexp
                 /\ OwnerOf(proc[p].pre.redis[j]) = proc[p].u
                 /\ proc[p].pre.now < GetTime(JsonParse(proc[p].pre.redis[j].val).expiresAt)}}
    \cup {<<"long-term", id, GetTime(proc[p].pre.ltm[id].createdAt)>> :
            id \in LtmRowsOf(proc[p].pre.ltm, proc[p].u)}

\* the items of the page p's list call returned: <<tier, id, createdAt>>
ItemsReturned(p) ==
    {<<proc[p].res.val.items[i].type, proc[p].res.val.items[i].id,
       GetTime(proc[p].res.val.items[i].createdAt)>> :
        i \in 1..Len(proc[p].res.val.items)}

\* C10: the page listMemories returns holds the newest `limit` entries of the
\* tenant's two tiers taken together, newest first.
C10_ListMergesTiers ==
    \A p \in Procs :
        (Done(p, "svc.list") /\ proc[p].res.status = "ok") =>
            LET limit == IF IsSome(proc[p].inp.limit) THEN proc[p].inp.limit[1] ELSE 10
                items == proc[p].res.val.items
            IN  /\ ItemsReturned(p) \subseteq EntriesBefore(p)
                /\ Len(items) = IF Cardinality(EntriesBefore(p)) < limit
                                THEN Cardinality(EntriesBefore(p)) ELSE limit
                /\ \A i, j \in 1..Len(items) :
                      i < j => GetTime(items[i].createdAt) >= GetTime(items[j].createdAt)
                /\ \A e \in EntriesBefore(p) \ ItemsReturned(p) :
                      \A r \in ItemsReturned(p) : r[3] >= e[3]

\* C11: the totalCount listMemories returns is the number of the tenant's
\* short-term entries plus the number of its long-term rows, whatever the
\* limit and however many items the page holds.
C11_TotalCountSumsTiers ==
    \A p \in Procs :
        (Done(p, "svc.list") /\ proc[p].res.status = "ok" /\ proc[p].inp.tags = None) =>
            proc[p].res.val.totalCount = Cardinality(EntriesBefore(p))

----------------------------------------------------------------------------
(* The coordinator's get *)

\* when p's call started the tenant had no short-term entry under the id, or
\* one whose expiresAt the clock had reached
NoShortTermBefore(p) ==
    ~HeldBefore(p) \/ proc[p].pre.now >= GetTime(EntryBefore(p).expiresAt)

\* what the long-term tier holds for p's call: the mapped row, or null
LongTermAnswer(p) ==
    IF proc[p].id \in LtmRowsOf(proc[p].pre.ltm, proc[p].u)
    THEN mapLtmToMemory(mapToLtmMemory(proc[p].pre.ltm[proc[p].id]))
    ELSE NullMemory

\* C12: getMemory, the cache answering, returns the tenant's short-term entry
\* when an unexpired one exists; with none it returns the long-term row when
\* there is one, and null exactly when the id is in neither tier.
C12_GetPrefersShortTerm ==
    \A p \in Procs :
        (Done(p, "svc.get") /\ proc[p].tmp.stmError # "RedisError") =>
            /\ proc[p].res.status = "ok"
            /\ StillUnexpired(p) => proc[p].res.val = mapStmToMemory(EntryBefore(p))
            /\ NoShortTermBefore(p) => proc[p].res.val = LongTermAnswer(p)

\* C13: when findById fails inside getMemory with an error that is neither
\* not-found nor expired (here a rejected redis.get), getMemory ends with that
\* error and the long-term tier is not consulted.
C13_GetPropagatesOtherErrors ==
    \A p \in Procs :
        (proc[p].op = "svc.get" /\ proc[p].tmp.stmError = "RedisError") =>
            /\ proc[p].pc # "svc_get_ltm"
            /\ proc[p].pc = "done" => proc[p].res.status = "RedisError"

----------------------------------------------------------------------------
(* The coordinator's update *)

\* when p's call started the cache held no key for the tenant and id
NoKeyBefore(p) == SrcKey(p) \notin DOMAIN proc[p].pre.redis

\* when p's call started the tenant had a long-term row under the id
RowBefore(p) == proc[p].id \in LtmRowsOf(proc[p].pre.ltm, proc[p].u)

\* the long-term table is as it was when p's call started, the row of the
\* call's id aside
OtherRowsKept(p) ==
    /\ DOMAIN ltm = DOMAIN proc[p].pre.ltm
    /\ \A id \in DOMAIN ltm \ {proc[p].id} : ltm[id] = proc[p].pre.ltm[id]

\* the fields the patch of p's call carries are the row's fields now; what
\* identifies the row is as it was
PatchApplied(p) ==
    /\ IsSome(proc[p].inp.content) => ltm[proc[p].id].content = proc[p].inp.content[1]
    /\ IsSome(proc[p].inp.metadata) => ltm[proc[p].id].metadata = proc[p].inp.metadata[1]
    /\ IsSome(proc[p].inp.tags) => ltm[proc[p].id].tags = proc[p].inp.tags[1]
    /\ ltm[proc[p].id].userId = proc[p].u
    /\ ltm[proc[p].id].type = LongTerm
    /\ ltm[proc[p].id].expiresAt = NullDate
    /\ ltm[proc[p].id].createdAt = proc[p].pre.ltm[proc[p].id].createdAt

C15_UpdateErrorNotSwallowed ==
    \A p \in Procs :
        (/\ proc[p].op = "svc.update"
         /\ StillUnexpired(p)
         /\ IsSome(proc[p].inp.ttl)
         /\ ~validateTtl(proc[p].inp.ttl[1])) =>
            /\ proc[p].pc \notin {"ltm_upd_get", "ltm_upd_set"}
            /\ proc[p].pc = "done" =>
                  proc[p].res.status \in {"StmTtlValidationError", "ZodError"}

\* the fields a patch omits are in the entry after the update what they were
\* in the entry before it
OmittedKept(inp, before, after) ==
    /\ inp.content = None => after.content = before.content
    /\ inp.metadata = None => after.metadata = before.metadata
    /\ inp.tags = None => after.tags = before.tags

\* C16: a successful updateMemory changes, in the tier that holds the entry,
\* only the fields its patch carries: omitted content, metadata and tags keep
\* their stored values.
C16_UpdateKeepsOmittedFields ==
    \A p \in Procs :
        (Done(p, "svc.update") /\ proc[p].res.status = "ok") =>
            /\ (proc[p].res.val.type = "short-term" /\ SrcKey(p) \in DOMAIN redis) =>
                  OmittedKept(proc[p].inp, EntryBefore(p), JsonParse(redis[SrcKey(p)].val))
            /\ proc[p].res.val.type = "long-term" =>
                  OmittedKept(proc[p].inp, proc[p].pre.ltm[proc[p].id], ltm[proc[p].id])

----------------------------------------------------------------------------
(* The coordinator's delete *)

\* C17: after deleteMemory returns, the tenant has neither a cache key nor a
\* long-term row under the id, also when it had both before the call.
C17_DeleteClearsBothTiers ==
    \A p \in Procs :
        Done(p, "svc.delete") =>
            /\ SrcKey(p) \notin DOMAIN redis
            /\ proc[p].id \notin LtmRowsOf(ltm, proc[p].u)

\* p's call has taken the key of its id out of the cache, or the tenant's row
\* of its id out of the table
RemovedSomething(p) ==
    \/ SrcKey(p) \in DOMAIN proc[p].pre.redis /\ SrcKey(p) \notin DOMAIN redis
    \/ RowBefore(p) /\ proc[p].id \notin DOMAIN ltm

\* C18: deleteMemory ends without error; it returns true exactly when it took
\* a cache key or a long-term row away (so true for an id that is only in the
\* long-term tier), and false, with both stores as they were, for an id that
\* is in neither tier.
C18_DeleteReportsRemoval ==
    \A p \in Procs :
        Done(p, "svc.delete") =>
            /\ proc[p].res.status = "ok"
            /\ proc[p].res.val = TRUE => RemovedSomething(p)
            /\ proc[p].res.val = FALSE => (redis = StillKept(p) /\ ltm = proc[p].pre.ltm)
            /\ SrcKey(p) \in DOMAIN StillKept(p) => proc[p].res.val = TRUE
            /\ (NoKeyBefore(p) /\ RowBefore(p)) =>
                  (proc[p].res.val = TRUE /\ proc[p].id \notin DOMAIN ltm)
            /\ (NoKeyBefore(p) /\ ~RowBefore(p)) => proc[p].res.val = FALSE

\* a delete of an id that was only in the long-term tier has answered true
C18_LongTermOnlyDeleted ==
    \E p \in Procs :
        /\ Done(p, "svc.delete")
        /\ NoKeyBefore(p)
        /\ RowBefore(p)
        /\ proc[p].res.val = TRUE
        /\ proc[p].id \notin DOMAIN ltm

----------------------------------------------------------------------------
(* Long-term create and its quota *)

\* the rows the table has gained since p's call started
RowsAdded(p) == DOMAIN ltm \ DOMAIN proc[p].pre.ltm

\* C19: create, calls following one another, for a tenant that holds
\* maxMemoriesPerUser rows or more fails with the quota error and writes
\* nothing; for a tenant below it, it succeeds and adds exactly one row, of the
\* tenant, long-term, with expiresAt null, so that the count rises by one.
C19_CreateHonoursQuota ==
    \A p \in Procs :
        Done(p, "ltm.create") =>
            /\ CountBefore(p) >= MaxMemoriesPerUser =>
                  /\ proc[p].res.status = "LtmMemoryQuotaExceededError"
                  /\ ltm = proc[p].pre.ltm
            /\ CountBefore(p) < MaxMemoriesPerUser =>
                  /\ proc[p].res.status = "ok"
                  /\ Cardinality(LtmRowsOf(ltm, proc[p].u)) = CountBefore(p) + 1
                  /\ Cardinality(RowsAdded(p)) = 1
                  /\ \A id \in DOMAIN proc[p].pre.ltm :
                        id \in DOMAIN ltm /\ ltm[id] = proc[p].pre.ltm[id]
                  /\ \A id \in RowsAdded(p) :
                        /\ ltm[id].userId = proc[p].u
                        /\ ltm[id].type = LongTerm
                        /\ ltm[id].expiresAt = NullDate
                        /\ proc[p].res.val = ltm[id]

\* a create refused for a tenant whose count an earlier create had raised to
\* the quota
C19_RefusedAfterCreate ==
    \E p \in Procs :
        /\ Done(p, "ltm.create")
        /\ CountBefore(p) = MaxMemoriesPerUser
        /\ <<"n">> \in LtmRowsOf(proc[p].pre.ltm, proc[p].u)
        /\ proc[p].res.status = "LtmMemoryQuotaExceededError"

----------------------------------------------------------------------------
(* The ttl field and the Redis expiry of a short-term entry *)

\* every entry in the cache carries a ttl within [minTtl, maxTtl]
TtlFieldsInRange ==
    \A k \in DOMAIN redis :
        /\ JsonParses(redis[k].val)
        /\ JsonParse(redis[k].val).ttl >= MinTtl
        /\ JsonParse(redis[k].val).ttl <= MaxTtl

\* a step that writes a key gives it the expiry of a SETEX, at that moment,
\* with the ttl field of the entry written
WrittenWithOwnTtl ==
    \A k \in DOMAIN redis' :
        (k \notin DOMAIN redis \/ redis'[k] # redis[k]) =>
            /\ JsonParses(redis'[k].val)
            /\ redis'[k].pexp = now + JsonParse(redis'[k].val).ttl

\* C20: over every sequence of short-term calls, failed ones included, each
\* entry in the cache has a ttl field within [60, 604800], and each write of a
\* key sets its Redis expiry to exactly that field.
C20_StoredTtlMatchesExpiry == []TtlFieldsInRange /\ [][WrittenWithOwnTtl]_vars

\* an update that supplied ttl 120 has stored an entry with ttl 120 whose key
\* expires 120 after the write
C20_RewrittenWithNewTtl ==
    \E p \in Procs :
        /\ Done(p, "stm.update")
        /\ proc[p].res.status = "ok"
        /\ proc[p].inp.ttl = Some(120)
        /\ SrcKey(p) \in DOMAIN redis
        /\ JsonParse(redis[SrcKey(p)].val).ttl = 120
        /\ EntryBefore(p).ttl = 60
        /\ redis[SrcKey(p)].pexp = GetTime(JsonParse(redis[SrcKey(p)].val).updatedAt) + 120

----------------------------------------------------------------------------
(* The short-term update *)

\* the ttl an update of p's input arrives at: the supplied one, else the
\* stored one
TtlOfUpdate(p) ==
    IF IsSome(proc[p].inp.ttl) THEN proc[p].inp.ttl[1] ELSE EntryBefore(p).ttl

\* the entry a successful update returns carries the stored id and createdAt,
\* the ttl of the update, an updatedAt the clock showed during the call and
\* an expiresAt that ttl later
UpdateRestamps ==
    \A p \in Procs :
        (Done(p, "stm.update") /\ proc[p].res.status = "ok") =>
            /\ proc[p].res.val.id = EntryBefore(p).id
            /\ GetTime(proc[p].res.val.createdAt) = GetTime(EntryBefore(p).createdAt)
            /\ proc[p].res.val.ttl = TtlOfUpdate(p)
            /\ GetTime(proc[p].res.val.updatedAt) >= proc[p].pre.now
            /\ GetTime(proc[p].res.val.updatedAt) <= now
            /\ GetTime(proc[p].res.val.expiresAt) =
                  GetTime(proc[p].res.val.updatedAt) + TtlOfUpdate(p)

\* the step that ends an update writes the returned entry under the key, with
\* a Redis expiry of the entry's ttl from that moment
UpdateRewritesKey ==
    \A p \in Procs :
        (proc[p].op = "stm.update" /\ proc[p].pc = "upd_set" /\ proc'[p].pc = "done") =>
            /\ proc'[p].res.status = "ok"
            /\ SrcKey(p) \in DOMAIN redis'
            /\ redis'[SrcKey(p)].val = JsonStringify(proc'[p].res.val)
            /\ redis'[SrcKey(p)].pexp = now + proc'[p].res.val.ttl

\* C21: every successful update returns the entry with its id and createdAt,
\* with updatedAt the time of the call and expiresAt that time plus the ttl
\* (supplied, else stored), and rewrites the key with a Redis expiry of that
\* ttl counted from the write, also when the ttl is the stored one.
C21_UpdateRestartsTtl == []UpdateRestamps /\ [][UpdateRewritesKey]_vars

\* an update that supplied no ttl has pushed the key's Redis expiry back
C21_CountdownRestarted ==
    \E p \in Procs :
        /\ Done(p, "stm.update")
        /\ proc[p].res.status = "ok"
        /\ proc[p].inp.ttl = None
        /\ SrcKey(p) \in DOMAIN redis
        /\ proc[p].res.val.ttl = EntryBefore(p).ttl
        /\ redis[SrcKey(p)].pexp > proc[p].pre.redis[SrcKey(p)].pexp
        /\ GetTime(proc[p].res.val.expiresAt) > GetTime(EntryBefore(p).expiresAt)

----------------------------------------------------------------------------
(* Updates and promotions racing on one key *)

\* C22: once a promote has returned successfully with its short-term delete
\* done, the cache holds no key for the promoted id, also when an update of
\* the same entry runs alongside the promote.
C22_PromotedLeavesCache ==
    \A p \in Procs :
        (/\ Done(p, "ltm.promote")
         /\ proc[p].res.status = "ok"
         /\ proc[p].tmp.stmDelete = "deleted") =>
            SrcKey(p) \notin DOMAIN redis

\* both callers have ended a successful update of the same entry
BothUpdated ==
    /\ \A p \in Procs : Done(p, "stm.update") /\ proc[p].res.status = "ok"
    /\ SrcKey(1) = SrcKey(2)

\* after two updates of one entry the key, while it lasts, holds what one of
\* them wrote
HoldsOneWritersValue ==
    (BothUpdated /\ SrcKey(1) \in DOMAIN redis) =>
        \E p \in Procs : redis[SrcKey(1)].val = JsonStringify(proc[p].res.val)

\* C23: however two updates of one entry interleave, the key ends up holding
\* the value one of them wrote, and every write of the key sets, in the same
\* step, a Redis expiry equal to the ttl field of the value written: no value
\* is stored with the other writer's expiry or with none.
C23_ValueAndExpiryTogether == []HoldsOneWritersValue /\ [][WrittenWithOwnTtl]_vars

\* two updates of one entry, with different ttls, have both ended
C23_TwoWritersDone ==
    /\ BothUpdated
    /\ SrcKey(1) \in DOMAIN redis
    /\ proc[1].res.val.ttl # proc[2].res.val.ttl
    /\ proc[1].pre.now = proc[2].pre.now
    /\ redis[SrcKey(1)].val = JsonStringify(proc[1].res.val)

----------------------------------------------------------------------------
(* No way back from the long-term tier *)

IsLongTerm(m) == m.type = "long-term" /\ m.expiresAt = NullDate

\* every row of the table, and every entry a long-term call has returned, is
\* long-term with expiresAt null
LongTermStaysLongTerm ==
    /\ \A id \in DOMAIN ltm : IsLongTerm(ltm[id])
    /\ \A p \in Procs :
          (proc[p].pc = "done" /\ proc[p].res.status = "ok") =>
              /\ proc[p].op \in {"ltm.create", "ltm.promote", "ltm.update"} =>
                    IsLongTerm(proc[p].res.val)
              /\ (proc[p].op = "ltm.get" /\ IsSome(proc[p].res.val)) =>
                    IsLongTerm(proc[p].res.val[1])
              /\ proc[p].op = "ltm.list" =>
                    \A i \in 1..Len(proc[p].res.val.items) :
                        IsLongTerm(proc[p].res.val.items[i])

\* a step that takes a row out of the table is the step of a delete or a
\* clear, and writes nothing to the cache
NoDemotionStep ==
    (DOMAIN ltm \ DOMAIN ltm' # {}) =>
        /\ \E p \in Procs :
              /\ proc'[p] # proc[p]
              /\ proc'[p].pc = "done"
              /\ proc'[p].op \in {"ltm.delete", "ltm.clear"}
        /\ redis' = redis

\* C24: a long-term row leaves the table only by delete or clear, the step
\* that removes it writes no short-term entry, and every row and every entry
\* returned from the long-term tier is long-term with expiresAt null.
C24_NoDemotion == []LongTermStaysLongTerm /\ [][NoDemotionStep]_vars

\* a promoted entry has been deleted from the long-term tier and is in no tier
C24_PromotedThenDeleted ==
    \E p \in Procs :
        /\ Done(p, "ltm.delete")
        /\ proc[p].res.val = TRUE
        /\ proc[p].id \in UuidIds
        /\ proc[p].id \in DOMAIN proc[p].pre.ltm
        /\ proc[p].id \notin DOMAIN ltm
        /\ \A u \in UserIds : buildMemoryKey(u, proc[p].id) \notin DOMAIN redis

----------------------------------------------------------------------------
(* Partial updates in each store *)

\* C25: a successful short-term update leaves every field its input omits at
\* the stored value: omitted content, metadata and tags are those of the entry
\* before the call, and an omitted ttl is the stored ttl.
C25_StmUpdateKeepsOmitted ==
    \A p \in Procs :
        (Done(p, "stm.update") /\ proc[p].res.status = "ok") =>
            /\ OmittedKept(proc[p].inp, EntryBefore(p), proc[p].res.val)
            /\ proc[p].inp.ttl = None => proc[p].res.val.ttl = EntryBefore(p).ttl

\* C26: the long-term update fails with the not-found error, writing nothing,
\* when the tenant has no row under the id; otherwise it writes the fields its
\* input supplies and no others: content, metadata and tags the input omits
\* are in the row what they were.
C26_LtmUpdateKeepsOmitted ==
    \A p \in Procs :
        Done(p, "ltm.update") =>
            /\ OtherRowsKept(p)
            /\ ~RowBefore(p) =>
                  /\ proc[p].res.status = "LtmMemoryNotFoundError"
                  /\ ltm = proc[p].pre.ltm
            /\ RowBefore(p) =>
                  /\ proc[p].res.status = "ok"
                  /\ OmittedKept(proc[p].inp, proc[p].pre.ltm[proc[p].id], ltm[proc[p].id])

----------------------------------------------------------------------------
(* extendTtl *)

\* what was left of the key's Redis expiry, plus the extension, when p's call
\* ended and when it started: getTtl read a value between the two
ExtendedAtLeast(p) == proc[p].pre.redis[SrcKey(p)].pexp - now + proc[p].inp
ExtendedAtMost(p) == proc[p].pre.redis[SrcKey(p)].pexp - proc[p].pre.now + proc[p].inp

\* C27: extendTtl on an entry that is held and unexpired throughout the call
\* either succeeds, and then the entry's ttl is what getTtl found left plus
\* additionalSeconds, within [60, 604800], and the key is rewritten with that
\* entry and that expiry; or it fails with StmTtlValidationError, the sum
\* being out of range, and the cache is as it was. It succeeds whenever the
\* sum is in range.
C27_ExtendAddsToRemaining ==
    \A p \in Procs :
        (Done(p, "stm.extendTtl") /\ StillUnexpired(p)) =>
            /\ proc[p].res.status \in {"ok", "StmTtlValidationError"}
            /\ proc[p].res.status = "ok" =>
                  /\ proc[p].res.val.ttl >= ExtendedAtLeast(p)
                  /\ proc[p].res.val.ttl <= ExtendedAtMost(p)
                  /\ ~OutOfRange(proc[p].res.val.ttl)
                  /\ SrcKey(p) \in DOMAIN redis =>
                        /\ redis[SrcKey(p)].val = JsonStringify(proc[p].res.val)
                        /\ redis[SrcKey(p)].pexp <= now + proc[p].res.val.ttl
                        /\ redis[SrcKey(p)].pexp >= proc[p].pre.now + proc[p].res.val.ttl
            /\ proc[p].res.status = "StmTtlValidationError" =>
                  /\ OutOfRange(ExtendedAtLeast(p)) \/ OutOfRange(ExtendedAtMost(p))
                  /\ redis = StillKept(p)
            /\ (~OutOfRange(ExtendedAtLeast(p)) /\ ~OutOfRange(ExtendedAtMost(p))) =>
                  proc[p].res.status = "ok"

\* an extendTtl called one clock unit into the entry's life has made the ttl
\* what was left (one less than the stored ttl) plus the extension
C27_ExtendedFromRemaining ==
    \E p \in Procs :
        /\ Done(p, "stm.extendTtl")
        /\ StillUnexpired(p)
        /\ proc[p].res.status = "ok"
        /\ proc[p].pre.now = now
        /\ proc[p].pre.redis[SrcKey(p)].pexp - now < EntryBefore(p).ttl
        /\ proc[p].res.val.ttl = proc[p].pre.redis[SrcKey(p)].pexp - now + proc[p].inp
        /\ redis[SrcKey(p)].pexp = now + proc[p].res.val.ttl

----------------------------------------------------------------------------
(* Pages of the long-term list *)

\* the rows the filter of p's list call selects, and its defaulted options
Matching(p) == whereIds(proc[p].pre.ltm, proc[p].u, proc[p].inp)
LimitOf(p) == IF IsSome(proc[p].inp.limit) THEN proc[p].inp.limit[1] ELSE 20
SortKey(p, id) ==
    IF proc[p].inp.sortBy = Some("updatedAt") THEN GetTime(proc[p].pre.ltm[id].updatedAt)
    ELSE GetTime(proc[p].pre.ltm[id].createdAt)
Ascending(p) == proc[p].inp.sortOrder = Some("asc")

\* the ways of lining up the matching rows in the requested order
Orderings(p) ==
    {ord \in [1..Cardinality(Matching(p)) -> Matching(p)] :
        /\ \A i, j \in DOMAIN ord : i # j => ord[i] # ord[j]
        /\ \A i, j \in DOMAIN ord :
              i < j => IF Ascending(p) THEN SortKey(p, ord[i]) <= SortKey(p, ord[j])
                       ELSE SortKey(p, ord[i]) >= SortKey(p, ord[j])}

\* where the page starts in a line-up: at its head, or right after the cursor
PageStart(p, ord) ==
    IF proc[p].inp.cursor = None THEN 1
    ELSE (CHOOSE i \in DOMAIN ord : ord[i] = proc[p].inp.cursor[1]) + 1

\* the result of p's list call is the page of line-up ord: the rows from the
\* page start on, at most limit of them, with the flags and cursors of the
\* pagination information
IsPageOf(p, ord) ==
    LET r == proc[p].res.val
        from == PageStart(p, ord)
        left == Len(ord) - from + 1
        n == IF left > LimitOf(p) THEN LimitOf(p) ELSE left
    IN  /\ Len(r.items) = n
        /\ \A i \in 1..n : r.items[i] = mapToLtmMemory(proc[p].pre.ltm[ord[from + i - 1]])
        /\ r.hasNextPage = (left > LimitOf(p))
        /\ r.hasPreviousPage = IsSome(proc[p].inp.cursor)
        /\ r.endCursor = IF n > 0 THEN Some(ord[from + n - 1]) ELSE None

AsListOptions(p) ==
    [limit |-> None, cursor |-> None, sortBy |-> None, sortOrder |-> None,
     tags |-> Opt(proc[p].inp, "tags"), dateFrom |-> Opt(proc[p].inp, "dateFrom"),
     dateTo |-> Opt(proc[p].inp, "dateTo"), search |-> Opt(proc[p].inp, "search")]

\* the rows of the tenant of p's call that the filters of the call describe:
\* any requested tag, createdAt within [dateFrom, dateTo], the search string
\* somewhere in the content whatever the case
Described(p) ==
    {id \in LtmRowsOf(proc[p].pre.ltm, proc[p].u) :
        /\ (IsSome(Opt(proc[p].inp, "tags")) /\ Len(Opt(proc[p].inp, "tags")[1]) > 0) =>
              hasMatchingTag(Opt(proc[p].inp, "tags")[1], proc[p].pre.ltm[id])
        /\ IsSome(Opt(proc[p].inp, "dateFrom")) =>
              GetTime(proc[p].pre.ltm[id].createdAt) >= GetTime(Opt(proc[p].inp, "dateFrom")[1])
        /\ IsSome(Opt(proc[p].inp, "dateTo")) =>
              GetTime(proc[p].pre.ltm[id].createdAt) <= GetTime(Opt(proc[p].inp, "dateTo")[1])
        /\ IsSome(Opt(proc[p].inp, "search")) =>
              containsInsensitive(proc[p].pre.ltm[id].content, Opt(proc[p].inp, "search")[1])}

\* C29: count returns the number of the tenant's long-term rows its filters
\* describe, which is the totalCount a list call with the same filters
\* reports in the same state; a list call's totalCount is that number too.
C29_CountAgreesWithList ==
    \A p \in Procs :
        /\ (Done(p, "ltm.count") /\ proc[p].res.status = "ok") =>
              /\ proc[p].res.val = Cardinality(Described(p))
              /\ proc[p].res.val =
                    listPage(proc[p].pre.ltm, proc[p].u, AsListOptions(p),
                             20, "createdAt", "desc").totalCount
        /\ (Done(p, "ltm.list") /\ proc[p].res.status = "ok") =>
              proc[p].res.val.totalCount = Cardinality(Described(p))

\* a count with a date range and a search in another case has counted one row
\* of the two the tenant holds
C29_FilteredCount ==
    \E p \in Procs :
        /\ Done(p, "ltm.count")
        /\ IsSome(Opt(proc[p].inp, "dateFrom"))
        /\ Opt(proc[p].inp, "search") = Some("C2")
        /\ CountBefore(p) = 2
        /\ proc[p].res.val = 1

\* C30: a list of the short-term store never returns more than limit
\* items, every returned item carries at least one of the requested tags
\* when tags are given, and a page of fewer than limit items reports
\* hasNextPage false
C30_ListFillsPageOrExhausts ==
    \A p \in Procs :
        (proc[p].pc = "done" /\ proc[p].op = "stm.list" /\ proc[p].res.status = "ok")
        => /\ Len(proc[p].res.val.items)
                <= (IF IsSome(proc[p].inp.limit) THEN proc[p].inp.limit[1] ELSE 20)
           /\ IsSome(proc[p].inp.tags)
                => \A i \in 1..Len(proc[p].res.val.items) :
                       hasMatchingTag(proc[p].inp.tags[1], proc[p].res.val.items[i])
           /\ Len(proc[p].res.val.items)
                < (IF IsSome(proc[p].inp.limit) THEN proc[p].inp.limit[1] ELSE 20)
                => ~proc[p].res.val.hasNextPage

\* the entries of the caller's tenant that were stored when the traversal
\* began and still are, and that carry a requested tag when tags are given
HeldThroughout(p) ==
    {k \in DOMAIN proc[p].pre.redis \cap DOMAIN redis :
        /\ redis[k] = proc[p].pre.redis[k]
        /\ JsonParses(redis[k].val)
        /\ JsonParse(redis[k].val).userId = proc[p].u
        /\ IsSome(proc[p].inp.tags)
             => hasMatchingTag(proc[p].inp.tags[1], JsonParse(redis[k].val))}

\* the ids of the items of all pages of a traversal
IdsPaged(p) ==
    {(proc[p].tmp.pages \o proc[p].res.val.items)[i].id :
        i \in 1..Len(proc[p].tmp.pages \o proc[p].res.val.items)}

\* a traversal from the first cursor has returned its last page
TraversalEnded(p) ==
    /\ proc[p].pc = "done" /\ proc[p].op = "stm.list" /\ proc[p].res.status = "ok"
    /\ proc[p].tmp.first = None
    /\ ~proc[p].res.val.hasNextPage

\* C31: paging through the short-term list from the first cursor, each
\* page's endCursor given as the next cursor, until hasNextPage is false,
\* returns every matching entry of the tenant that was stored throughout
C31_PagingReturnsEveryEntry ==
    \A p \in Procs :
        TraversalEnded(p)
        => \A k \in HeldThroughout(p) : JsonParse(redis[k].val).id \in IdsPaged(p)

\* the keys of the caller's tenant that the cache held when the call started
\* (with tags: those whose entry carries a requested tag)
TenantKeysBefore(p, tags) ==
    {k \in DOMAIN proc[p].pre.redis :
        /\ \E m \in UuidIds : k = buildMemoryKey(proc[p].u, m)
        /\ Len(tags) > 0
             => /\ JsonParses(proc[p].pre.redis[k].val)
                /\ hasMatchingTag(tags, JsonParse(proc[p].pre.redis[k].val))}

\* C32: count(tenant, {tags}), with no write during the call, returns the
\* number of the tenant's keys (with tags: of those whose entry carries a
\* requested tag) and counts no key of another tenant
C32_CountIsTenantsEntries ==
    \A p \in Procs :
        (Done(p, "stm.count") /\ proc[p].res.status = "ok")
        => proc[p].res.val = Cardinality(TenantKeysBefore(p, proc[p].inp))

\* C33: clear(tenant), with no write during the call, deletes every key of
\* the tenant and no other key, returns the number of keys it deleted, and
\* leaves a cache in which count(tenant) is 0
C33_ClearRemovesTenantOnly ==
    \A p \in Procs :
        (Done(p, "stm.clear") /\ proc[p].res.status = "ok")
        => /\ redis = RedisDelMany(StillKept(p), TenantKeysBefore(p, <<>>))
           /\ proc[p].res.val = Cardinality(TenantKeysBefore(p, <<>>))
           /\ countFrom(redis, 0, buildUserPattern(proc[p].u), <<>>) = 0

\* when p's call started, the key it names held a payload that is not valid
\* JSON
CorruptBefore(p) ==
    /\ SrcKey(p) \in DOMAIN proc[p].pre.redis
    /\ ~JsonParses(proc[p].pre.redis[SrcKey(p)].val)

\* a call of findById, update or extendTtl has ended
ReadCallEnded(p) ==
    /\ proc[p].pc = "done"
    /\ proc[p].op \in {"stm.findById", "stm.update", "stm.extendTtl"}

\* C34: findById on a key whose payload is not valid JSON fails with
\* StmMemoryNotFoundError, and so do extendTtl and an update whose input
\* passes schema validation; none of them writes to the cache
C34_CorruptIsNotFound ==
    \A p \in Procs :
        (ReadCallEnded(p) /\ CorruptBefore(p)
            /\ (proc[p].op = "stm.update" => updateStmMemorySchema(proc[p].inp)))
        => (proc[p].res.status = "StmMemoryNotFoundError" /\ redis = StillKept(p))

\* C34 as stated: every update on such a key fails with
\* StmMemoryNotFoundError, whatever its input
C34_CorruptIsNotFoundAsStated ==
    \A p \in Procs :
        (ReadCallEnded(p) /\ CorruptBefore(p))
        => (proc[p].res.status = "StmMemoryNotFoundError" /\ redis = StillKept(p))

\* an update with a valid input, on a corrupt payload still in the cache,
\* was refused
C34_CorruptUpdateRefused ==
    \E p \in Procs :
        /\ Done(p, "stm.update") /\ CorruptBefore(p)
        /\ updateStmMemorySchema(proc[p].inp)
        /\ SrcKey(p) \in DOMAIN redis
        /\ proc[p].res.status = "StmMemoryNotFoundError"

\* a short-term delete ends normally exactly when its key was still there,
\* and then the key alone is gone; otherwise it fails with
\* StmMemoryNotFoundError and the cache is as it was
ShortTermDeleted(p) ==
    Done(p, "stm.delete")
    => /\ proc[p].res.status \in {"ok", "StmMemoryNotFoundError"}
       /\ SrcKey(p) \in DOMAIN StillKept(p) => proc[p].res.status = "ok"
       /\ proc[p].res.status = "ok"
            => /\ SrcKey(p) \in DOMAIN proc[p].pre.redis
               /\ redis = RedisDelMany(StillKept(p), {SrcKey(p)})
       /\ proc[p].res.status = "StmMemoryNotFoundError" => redis = StillKept(p)

\* a long-term delete answers true exactly when the tenant had a long-term
\* row of that id, which is then the one row gone, and never fails
LongTermDeleted(p) ==
    Done(p, "ltm.delete")
    => /\ proc[p].res.status = "ok"
       /\ proc[p].res.val = (proc[p].id \in LtmRowsOf(proc[p].pre.ltm, proc[p].u))
       /\ ltm = LtmDeleteMany(proc[p].pre.ltm,
                              {proc[p].id} \cap LtmRowsOf(proc[p].pre.ltm, proc[p].u))

\* C35: ShortTermStore.delete removes the key and returns normally when
\* the key existed, and fails with StmMemoryNotFoundError leaving the cache
\* unchanged when no key was removed; LongTermStore.delete returns true
\* iff a long-term row of that id and tenant was removed, false otherwise
C35_DeleteOutcomes ==
    \A p \in Procs : ShortTermDeleted(p) /\ LongTermDeleted(p)

\* a short-term delete found no key: another tenant holds that id, and its
\* key is still there
C35_AbsentKeyRefused ==
    \E p \in Procs :
        /\ Done(p, "stm.delete")
        /\ proc[p].res.status = "StmMemoryNotFoundError"
        /\ \E u \in UserIds : buildMemoryKey(u, proc[p].id) \in DOMAIN redis

\* between the starts of p's and q's calls nothing but p's own insert has
\* written the long-term tier
NothingElseWritten(p, q) ==
    \/ proc[q].pre.ltm = proc[p].pre.ltm
    \/ /\ "result" \in DOMAIN proc[p].tmp
       /\ proc[q].pre.ltm = LtmInsert(proc[p].pre.ltm, proc[p].tmp.result)

\* callers p and q have both ended a promote of the same entry; when p's
\* began the entry was in the cache, no long-term row carried its id and the
\* tenant was under its quota, the entry has not reached its expiresAt, and
\* no third call has written the long-term tier meanwhile
PromotedTwice(p, q) ==
    /\ p # q
    /\ Done(p, "ltm.promote") /\ Done(q, "ltm.promote")
    /\ proc[p].u = proc[q].u /\ proc[p].id = proc[q].id
    /\ hasStm
    /\ StillUnexpired(p)
    /\ proc[p].id \notin DOMAIN proc[p].pre.ltm
    /\ CountBefore(p) < MaxMemoriesPerUser
    /\ NothingElseWritten(p, q)

\* one long-term row carries the id, the tenant has one row more, and
\* exactly one of the two calls returned it
OneRowOneWinner(p, q) ==
    /\ proc[p].id \in LtmRowsOf(ltm, proc[p].u)
    /\ Cardinality(LtmRowsOf(ltm, proc[p].u)) = CountBefore(p) + 1
    /\ (proc[p].res.status = "ok") # (proc[q].res.status = "ok")
    /\ \A w \in {p, q} : proc[w].res.status = "ok" => proc[w].res.val.id = proc[p].id

\* C36: of two concurrent promotes of one short-term entry of a tenant
\* under quota, with no other call writing the long-term tier meanwhile,
\* every interleaving ends with exactly one long-term row of
\* that id and a count one higher; one call returns the entry, the other
\* fails with LtmPromotionError, or with LtmMemoryQuotaExceededError when
\* the first row has filled the quota before the other's quota check
C36_OnePromotionWins ==
    \A p, q \in Procs :
        PromotedTwice(p, q)
        => /\ OneRowOneWinner(p, q)
           /\ \A w \in {p, q} :
                 proc[w].res.status
                    \in {"ok", "LtmPromotionError", "LtmMemoryQuotaExceededError"}

\* C36 as stated: the call that does not return fails with
\* LtmPromotionError
C36_OnePromotionWinsAsStated ==
    \A p, q \in Procs :
        PromotedTwice(p, q)
        => /\ OneRowOneWinner(p, q)
           /\ \A w \in {p, q} : proc[w].res.status \in {"ok", "LtmPromotionError"}

\* both promotes read the entry before either one wrote its row, and the
\* second insert met the first one's primary key
C36_SecondInsertRefused ==
    \E p, q \in Procs :
        /\ PromotedTwice(p, q) /\ PromotedTwice(q, p)
        /\ proc[p].res.status = "ok"
        /\ proc[q].res.status = "LtmPromotionError"
        /\ DOMAIN proc[q].tmp = {"stm"}

\* caller p's findById takes its cleanup step: the key it deletes, if still
\* there, holds an entry whose expiresAt the clock has reached
CleanupRemovesExpired(p) ==
    (proc[p].pc = "find_del" /\ proc'[p].pc # "find_del" /\ SrcKey(p) \in DOMAIN redis)
    => /\ JsonParses(redis[SrcKey(p)].val)
       /\ now >= GetTime(JsonParse(redis[SrcKey(p)].val).expiresAt)

\* C37: the expiry cleanup of findById never removes a live entry: the key
\* it deletes holds, at that moment, an expired value, also when an update
\* of the same key runs alongside
C37_CleanupSparesLiveEntry ==
    [][\A p \in Procs : CleanupRemovesExpired(p)]_vars

----------------------------------------------------------------------------
(* The key builder *)

\* caller p holds a key it has built
HasKey(p) == proc[p].pc = "done" /\ proc[p].op \in {"key.build", "key.extract", "key.match"}
KeyOf(p) == IF proc[p].op = "key.build" THEN proc[p].res.val ELSE proc[p].tmp.key

\* C38: buildMemoryKey gives distinct keys for distinct (tenant, id) pairs,
\* and extractUserId and extractMemoryId give back the tenant and the id a
\* key was built from
C38_KeyInjectiveAndReversible ==
    /\ \A p, q \in Procs :
          (HasKey(p) /\ HasKey(q) /\ <<proc[p].u, proc[p].id>> # <<proc[q].u, proc[q].id>>)
          => KeyOf(p) # KeyOf(q)
    /\ \A p \in Procs :
          Done(p, "key.extract")
          => /\ proc[p].res.val.userId = proc[p].u
             /\ proc[p].res.val.memoryId = proc[p].id

\* C39: the pattern of a tenant matches a key exactly when the key was
\* built for that tenant; it matches no key of another tenant
C39_PatternMatchesOwnKeysOnly ==
    \A p \in Procs :
        Done(p, "key.match") => (proc[p].res.val = (proc[p].inp = proc[p].u))

====
